---- MODULE Spec2Model ----
(***************************************************************************)
(* A model of the SQL front end: the Tokenizer (src/src/tokenizer.rs) and  *)
(* the recursive-descent Parser (src/src/parser.rs).                        *)
(*                                                                         *)
(* Text is a sequence of one-character strings.  A Tokenizer object is its *)
(* five fields; a Parser object is its token buffer and its cursor.  The   *)
(* functions of the source are operators that thread the object's fields   *)
(* the way the Rust code mutates them through &mut self.                   *)
(***************************************************************************)
EXTENDS Integers, Sequences, FiniteSets, TLC

VARIABLES
    text,              \* the &str handed to Tokenizer::new (never changes)
    input,             \* Tokenizer.input: the characters not yet consumed
    is_after_select,   \* Tokenizer.is_after_select
    current_position,  \* Tokenizer.current_position
    tokens,            \* Tokenizer.tokens: the iterator's cache
    current_token,     \* Tokenizer.current_token
    ret,               \* what the last call returned, and the fields it started from
    pulled,            \* the items Iterator::next has returned so far, in order
    eager,             \* number of direct calls of tokenize()
    scans,             \* number of scans run (direct or from inside next())
    parser_tokens,     \* Parser.tokens
    current,           \* Parser.current
    parsed,            \* what Parser::parse returned
    running            \* the loop the program is inside: its locals, where its last
                       \* iteration started and whether it goes on

lexvars == <<text, input, is_after_select, current_position, tokens, current_token,
             ret, pulled, eager, scans>>
parsevars == <<parser_tokens, current, parsed, running>>
vars == <<text, input, is_after_select, current_position, tokens, current_token,
          ret, pulled, eager, scans, parser_tokens, current, parsed, running>>

-----------------------------------------------------------------------------
(* Bounds of the model. *)

\* number of text fragments an input text is made of
MaxPieces == 3
\* number of direct tokenize() calls on one Tokenizer
MaxEager == 2
\* number of Iterator::next calls on one Tokenizer
MaxPulls == 5
\* number of token phrases a Parser's token buffer is made of
MaxPhrases == 4
\* number of parse() calls on one Parser
MaxParses == 2
\* number of tokens of a statement that are removed or replaced
MaxEdits == 1
\* number of tokens of a projection expression
MaxExprTokens == 5
\* number of text fragments of a text whose scan is followed iteration by iteration
MaxScanPieces == 2
\* number of constraint clauses written after a column type
MaxClauses == 3
\* number of token phrases that follow the semicolon of a statement
MaxFollowing == 2

-----------------------------------------------------------------------------
(* u64: four 16-bit limbs, least significant first. *)

LimbBase == 65536

Zero == <<0, 0, 0, 0>>

\* u64::checked_mul by a small factor m: the product, or overflow
checked_mul_wrapping(n, m) ==
    LET p1 == n[1] * m
        p2 == n[2] * m + (p1 \div LimbBase)
        p3 == n[3] * m + (p2 \div LimbBase)
        p4 == n[4] * m + (p3 \div LimbBase)
    IN  [some |-> TRUE,
         val |-> <<p1 % LimbBase, p2 % LimbBase, p3 % LimbBase, p4 % LimbBase>>]

checked_mul(n, m) ==
    LET p1 == n[1] * m
        p2 == n[2] * m + (p1 \div LimbBase)
        p3 == n[3] * m + (p2 \div LimbBase)
        p4 == n[4] * m + (p3 \div LimbBase)
    IN  [some |-> (p4 \div LimbBase) = 0,
         val |-> <<p1 % LimbBase, p2 % LimbBase, p3 % LimbBase, p4 % LimbBase>>]

\* u64::checked_add of a small addend d
checked_add(n, d) ==
    LET s1 == n[1] + d
        s2 == n[2] + (s1 \div LimbBase)
        s3 == n[3] + (s2 \div LimbBase)
        s4 == n[4] + (s3 \div LimbBase)
    IN  [some |-> (s4 \div LimbBase) = 0,
         val |-> <<s1 % LimbBase, s2 % LimbBase, s3 % LimbBase, s4 % LimbBase>>]

\* a small natural number as a u64
U64(k) == <<k % LimbBase, k \div LimbBase, 0, 0>>

-----------------------------------------------------------------------------
(* Characters. *)

Digits == {"0", "1", "2", "3", "4", "5", "6", "7", "8", "9"}

LowerLetters == {"a", "b", "c", "d", "e", "f", "g", "h", "i", "j", "k", "l", "m",
                 "n", "o", "p", "q", "r", "s", "t", "u", "v", "w", "x", "y", "z"}

UpperLetters == {"A", "B", "C", "D", "E", "F", "G", "H", "I", "J", "K", "L", "M",
                 "N", "O", "P", "Q", "R", "S", "T", "U", "V", "W", "X", "Y", "Z"}

UpperOf == [a |-> "A", b |-> "B", c |-> "C", d |-> "D", e |-> "E", f |-> "F",
            g |-> "G", h |-> "H", i |-> "I", j |-> "J", k |-> "K", l |-> "L",
            m |-> "M", n |-> "N", o |-> "O", p |-> "P", q |-> "Q", r |-> "R",
            s |-> "S", t |-> "T", u |-> "U", v |-> "V", w |-> "W", x |-> "X",
            y |-> "Y", z |-> "Z"]

\* to_ascii_uppercase that leaves the character as it is
to_ascii_uppercase_keep(c) == c

\* char::to_ascii_uppercase
to_ascii_uppercase(c) == IF c \in LowerLetters THEN UpperOf[c] ELSE c

\* char::is_ascii_digit
is_ascii_digit(c) == c \in Digits

\* char::is_ascii_alphanumeric
is_ascii_alphanumeric(c) == c \in Digits \/ c \in LowerLetters \/ c \in UpperLetters

\* char::to_digit(10) of an ASCII digit
to_digit(c) ==
    CASE c = "0" -> 0 [] c = "1" -> 1 [] c = "2" -> 2 [] c = "3" -> 3 [] c = "4" -> 4
      [] c = "5" -> 5 [] c = "6" -> 6 [] c = "7" -> 7 [] c = "8" -> 8 [] c = "9" -> 9

-----------------------------------------------------------------------------
(* Tokens (src/src/token.rs).  t is the variant; k the variant name of a  *)
(* Keyword; s the characters of an Identifier or String; n the value of a  *)
(* Number.  A field a variant does not carry holds "", <<>> or Zero.       *)

Tok(t, k, s, n) == [t |-> t, k |-> k, s |-> s, n |-> n]
Keyword(k) == Tok("Keyword", k, <<>>, Zero)
Identifier(s) == Tok("Identifier", "", s, Zero)
String(s) == Tok("String", "", s, Zero)
Number(n) == Tok("Number", "", <<>>, n)
Plus == Tok("Plus", "", <<>>, Zero)
Minus == Tok("Minus", "", <<>>, Zero)
Star == Tok("Star", "", <<>>, Zero)
Divide == Tok("Divide", "", <<>>, Zero)
Equal == Tok("Equal", "", <<>>, Zero)
NotEqual == Tok("NotEqual", "", <<>>, Zero)
LessThan == Tok("LessThan", "", <<>>, Zero)
GreaterThan == Tok("GreaterThan", "", <<>>, Zero)
LessThanOrEqual == Tok("LessThanOrEqual", "", <<>>, Zero)
GreaterThanOrEqual == Tok("GreaterThanOrEqual", "", <<>>, Zero)
LeftParentheses == Tok("LeftParentheses", "", <<>>, Zero)
RightParentheses == Tok("RightParentheses", "", <<>>, Zero)
Comma == Tok("Comma", "", <<>>, Zero)
Semicolon == Tok("Semicolon", "", <<>>, Zero)
Wildcard == Tok("Wildcard", "", <<>>, Zero)
Eof == Tok("Eof", "", <<>>, Zero)

\* the keyword table of Tokenizer::tokenize: upper-cased text to Keyword variant
KeywordTable ==
    <<"S", "E", "L", "E", "C", "T">> :> "Select" @@
    <<"C", "R", "E", "A", "T", "E">> :> "Create" @@
    <<"T", "A", "B", "L", "E">> :> "Table" @@
    <<"W", "H", "E", "R", "E">> :> "Where" @@
    <<"O", "R", "D", "E", "R">> :> "Order" @@
    <<"B", "Y">> :> "By" @@
    <<"A", "S", "C">> :> "Asc" @@
    <<"D", "E", "S", "C">> :> "Desc" @@
    <<"F", "R", "O", "M">> :> "From" @@
    <<"A", "N", "D">> :> "And" @@
    <<"O", "R">> :> "Or" @@
    <<"N", "O", "T">> :> "Not" @@
    <<"T", "R", "U", "E">> :> "True" @@
    <<"F", "A", "L", "S", "E">> :> "False" @@
    <<"P", "R", "I", "M", "A", "R", "Y">> :> "Primary" @@
    <<"K", "E", "Y">> :> "Key" @@
    <<"F", "O", "R", "E", "I", "G", "N">> :> "Foreign" @@
    <<"R", "E", "F", "E", "R", "E", "N", "C", "E", "S">> :> "References" @@
    <<"C", "H", "E", "C", "K">> :> "Check" @@
    <<"I", "N", "T">> :> "Int" @@
    <<"B", "O", "O", "L">> :> "Bool" @@
    <<"V", "A", "R", "C", "H", "A", "R">> :> "Varchar" @@
    <<"N", "U", "L", "L">> :> "Null" @@
    <<"I", "N", "D", "E", "X">> :> "Index" @@
    <<"U", "N", "I", "Q", "U", "E">> :> "Unique" @@
    <<"O", "N">> :> "On"

-----------------------------------------------------------------------------
(* The Tokenizer.  self is the record of the fields a scan reads and       *)
(* writes: input, current_position, is_after_select.                       *)

\* Tokenizer::new
new(str) == [input |-> str, current_position |-> 0, is_after_select |-> FALSE]

\* Peekable::peek
peek_char(self) == IF self.input = <<>> THEN "" ELSE Head(self.input)

\* Tokenizer::advance
advance_char(self) ==
    [self EXCEPT !.input = IF @ = <<>> THEN @ ELSE Tail(@),
                 !.current_position = @ + 1]

\* Result<_, Error> of a scan; scanned is the local token vector at the return
LexOk(self, toks) ==
    [self |-> self, ok |-> TRUE, tokens |-> toks, kind |-> "", err |-> "",
     scanned |-> toks]
LexErr(self, toks, msg) ==
    [self |-> self, ok |-> FALSE, tokens |-> <<>>, kind |-> "LexerError", err |-> msg,
     scanned |-> toks]

\* string_loop closing on either kind of quote
RECURSIVE string_loop_any_quote(_, _, _)
string_loop_any_quote(self, quote, string) ==
    IF self.input = <<>>
    THEN [self |-> self, ok |-> FALSE, tok |-> Eof,
          err |-> "Unterminated string literal starting with " \o quote]
    ELSE IF peek_char(self) \in {"'", "\""}
         THEN [self |-> advance_char(self), ok |-> TRUE, tok |-> String(string),
               err |-> ""]
         ELSE string_loop_any_quote(advance_char(self), quote,
                                    Append(string, peek_char(self)))

\* the while loop of Tokenizer::tokenize_string, after the opening quote
RECURSIVE string_loop(_, _, _)
string_loop(self, quote, string) ==
    IF self.input = <<>>
    THEN [self |-> self, ok |-> FALSE, tok |-> Eof,
          err |-> "Unterminated string literal starting with " \o quote]
    ELSE IF peek_char(self) = quote
         THEN [self |-> advance_char(self), ok |-> TRUE, tok |-> String(string),
               err |-> ""]
         ELSE string_loop(advance_char(self), quote, Append(string, peek_char(self)))

\* Tokenizer::tokenize_string
tokenize_string(self, quote) == string_loop(advance_char(self), quote, <<>>)

\* the digit loop of Tokenizer::tokenize
RECURSIVE number_loop(_, _)
number_loop(self, number) ==
    IF self.input = <<>> \/ ~is_ascii_digit(peek_char(self))
    THEN [self |-> self, ok |-> TRUE, tok |-> Number(number), err |-> ""]
    ELSE LET m == checked_mul(number, 10)
             a == checked_add(m.val, to_digit(peek_char(self)))
         IN  IF m.some /\ a.some
             THEN number_loop(advance_char(self), a.val)
             ELSE [self |-> self, ok |-> FALSE, tok |-> Eof, err |-> "Number too large"]

\* the identifier loop of Tokenizer::tokenize
RECURSIVE identifier_loop(_, _)
identifier_loop(self, identifier) ==
    IF self.input = <<>>
       \/ (~is_ascii_alphanumeric(peek_char(self)) /\ peek_char(self) # "_")
    THEN [self |-> self, identifier |-> identifier]
    ELSE identifier_loop(advance_char(self),
                         Append(identifier, to_ascii_uppercase(peek_char(self))))

\* the match on the upper-cased identifier text
keyword_or_identifier(self, identifier) ==
    IF identifier \in DOMAIN KeywordTable
    THEN [self |-> [self EXCEPT !.is_after_select =
                        IF identifier = <<"S", "E", "L", "E", "C", "T">> THEN TRUE
                        ELSE IF identifier = <<"F", "R", "O", "M">> THEN FALSE
                        ELSE @],
          ok |-> TRUE, tok |-> Keyword(KeywordTable[identifier]), err |-> ""]
    ELSE [self |-> self, ok |-> TRUE, tok |-> Identifier(identifier), err |-> ""]

\* the '*' arm: Wildcard or Star
star_token(self, toks) ==
    IF self.is_after_select
       /\ (toks = <<>> \/ toks[Len(toks)] = Keyword("Select") \/ toks[Len(toks)] = Comma)
    THEN Wildcard
    ELSE Star

\* a one- or two-character operator whose second character is '='
with_equal(self, two, one) ==
    LET s1 == advance_char(self)
    IN  IF peek_char(s1) = "="
        THEN [self |-> advance_char(s1), ok |-> TRUE, tok |-> two, err |-> ""]
        ELSE [self |-> s1, ok |-> one.ok, tok |-> one.tok, err |-> one.err]

Whitespace == {" ", "\t", "\n", "\r"}

\* one arm of the match in Tokenizer::tokenize, for a character that is not whitespace
scan_token(self, toks) ==
    LET c == peek_char(self)
        single(tok) == [self |-> advance_char(self), ok |-> TRUE, tok |-> tok, err |-> ""]
    IN  CASE c = "(" -> single(LeftParentheses)
          [] c = ")" -> single(RightParentheses)
          [] c = ">" -> with_equal(self, GreaterThanOrEqual, [ok |-> TRUE, tok |-> GreaterThan, err |-> ""])
          [] c = "<" -> with_equal(self, LessThanOrEqual, [ok |-> TRUE, tok |-> LessThan, err |-> ""])
          [] c = "=" -> single(Equal)
          [] c = "!" -> with_equal(self, NotEqual, [ok |-> FALSE, tok |-> Eof, err |-> "Expected '=' after '!'"])
          [] c = "*" -> single(star_token(self, toks))
          [] c = "/" -> single(Divide)
          [] c = "-" -> single(Minus)
          [] c = "+" -> single(Plus)
          [] c = "," -> single(Comma)
          [] c = ";" -> single(Semicolon)
          [] c = "'" \/ c = "\"" -> tokenize_string(self, c)
          [] c \in Digits -> number_loop(self, Zero)
          [] c \in UpperLetters \/ c \in LowerLetters \/ c = "_" ->
                LET r == identifier_loop(self, <<>>)
                IN  keyword_or_identifier(r.self, r.identifier)
          [] OTHER -> [self |-> self, ok |-> FALSE, tok |-> Eof,
                       err |-> "Invalid character: " \o c]

\* tokenize_loop without the final push of Eof
RECURSIVE tokenize_loop_no_eof(_, _)
tokenize_loop_no_eof(self, toks) ==
    IF self.input = <<>>
    THEN LexOk(self, toks)
    ELSE IF peek_char(self) \in Whitespace
         THEN tokenize_loop_no_eof(advance_char(self), toks)
         ELSE LET r == scan_token(self, toks)
              IN  IF r.ok
                  THEN tokenize_loop_no_eof(r.self, Append(toks, r.tok))
                  ELSE LexErr(r.self, toks, r.err)

\* a whitespace arm that looks at the character and leaves it
skip_whitespace_peek(self) == self

\* the whitespace arm of the match in Tokenizer::tokenize
skip_whitespace(self) == advance_char(self)

\* one iteration of the while loop of Tokenizer::tokenize, entered with a
\* character to look at: again says whether the loop goes on
tokenize_iteration(self, toks) ==
    IF peek_char(self) \in Whitespace
    THEN [again |-> TRUE, self |-> skip_whitespace(self), toks |-> toks, err |-> ""]
    ELSE LET r == scan_token(self, toks)
         IN  IF r.ok
             THEN [again |-> TRUE, self |-> r.self, toks |-> Append(toks, r.tok),
                   err |-> ""]
             ELSE [again |-> FALSE, self |-> r.self, toks |-> toks, err |-> r.err]

\* the while loop of Tokenizer::tokenize
RECURSIVE tokenize_loop(_, _)
tokenize_loop(self, toks) ==
    IF self.input = <<>>
    THEN LexOk(self, Append(toks, Eof))
    ELSE LET step == tokenize_iteration(self, toks)
         IN  IF step.again
             THEN tokenize_loop(step.self, step.toks)
             ELSE LexErr(step.self, toks, step.err)

\* Tokenizer::tokenize
tokenize(self) == tokenize_loop(self, <<>>)


-----------------------------------------------------------------------------
(* The Parser (src/src/parser.rs).  toks is Parser.tokens, cur is          *)
(* Parser.current (the number of tokens consumed).  Every parsing function *)
(* returns a Result together with the cursor it leaves behind:             *)
(*   ok: Ok or Err;  val: the value of an Ok;  kind: the Error variant;    *)
(*   what: the `expected` of an UnexpectedToken, or the fixed part of the  *)
(*   message of a message-carrying variant;  found: the token named in the *)
(*   error, if any.                                                        *)

NoVal == <<>>
NoToken == [some |-> FALSE, tok |-> Eof]
SomeToken(tok) == [some |-> TRUE, tok |-> tok]

POk(val, cur) ==
    [ok |-> TRUE, val |-> val, kind |-> "", what |-> "", found |-> NoToken, cur |-> cur]
PErr(kind, what, found, cur) ==
    [ok |-> FALSE, val |-> NoVal, kind |-> kind, what |-> what, found |-> found,
     cur |-> cur]

\* the ? operator: an Err is returned as it is, an Ok is handed on
\* what one iteration of a loop leaves behind when it did not return an error:
\* the locals, the cursor and whether the loop goes on
Again(val, cur) == [ok |-> TRUE, again |-> TRUE, val |-> val, cur |-> cur]
Leave(val, cur) == [ok |-> TRUE, again |-> FALSE, val |-> val, cur |-> cur]

Then(r, rest(_)) == IF ~r.ok THEN r ELSE rest(r)

\* Parser::peek
peek(toks, cur) == IF cur < Len(toks) THEN SomeToken(toks[cur + 1]) ELSE NoToken

\* Parser::advance
advance(cur) == cur + 1

\* peek() matches Some(tok)
peek_is(toks, cur, tok) == peek(toks, cur).some /\ peek(toks, cur).tok = tok

\* peek() matches Some(Token::<variant>(_))
peek_variant(toks, cur, variant) == peek(toks, cur).some /\ peek(toks, cur).tok.t = variant

\* format!("{:?}", token) of a token without payload, and of a keyword
DebugName(tok) == IF tok.t = "Keyword" THEN tok.k ELSE tok.t

\* expect_token that lets a different token pass, unconsumed
expect_token_lenient(toks, cur, expected) ==
    LET pk == peek(toks, cur)
    IN  IF pk.some /\ pk.tok = expected THEN POk(NoVal, advance(cur))
        ELSE IF pk.some THEN POk(NoVal, cur)
        ELSE PErr("UnexpectedEOF", "", NoToken, cur)

\* Parser::expect_token
expect_token(toks, cur, expected) ==
    LET pk == peek(toks, cur)
    IN  IF pk.some /\ pk.tok = expected THEN POk(NoVal, advance(cur))
        ELSE IF pk.some THEN PErr("UnexpectedToken", DebugName(expected), pk, cur)
        ELSE PErr("UnexpectedEOF", "", NoToken, cur)

\* expect_keyword that consumes the token it rejects
expect_keyword_consuming(toks, cur, expected) ==
    LET pk == peek(toks, cur)
    IN  IF pk.some /\ pk.tok.t = "Keyword" /\ pk.tok.k = expected
        THEN POk(NoVal, advance(cur))
        ELSE IF pk.some THEN PErr("UnexpectedToken", expected, pk, advance(cur))
        ELSE PErr("UnexpectedEOF", "", NoToken, cur)

\* a semicolon that must be the last token before Eof or the end of the tokens
end_of_statement_and_tokens(toks, cur) ==
    Then(expect_token(toks, cur, Semicolon), LAMBDA semi :
        IF ~peek(toks, semi.cur).some \/ peek(toks, semi.cur).tok = Eof THEN semi
        ELSE PErr("UnexpectedToken", "Eof", peek(toks, semi.cur), semi.cur))

\* the semicolon every statement ends with: nothing is read after it
end_of_statement(toks, cur) == expect_token(toks, cur, Semicolon)

\* Parser::expect_keyword
expect_keyword(toks, cur, expected) ==
    LET pk == peek(toks, cur)
    IN  IF pk.some /\ pk.tok.t = "Keyword" /\ pk.tok.k = expected
        THEN POk(NoVal, advance(cur))
        ELSE IF pk.some THEN PErr("UnexpectedToken", expected, pk, cur)
        ELSE PErr("UnexpectedEOF", "", NoToken, cur)

\* the match that reads one Identifier token as a name, with the error of each arm
expect_name(toks, cur, tokKind, tokWhat, eofKind, eofWhat) ==
    LET pk == peek(toks, cur)
    IN  IF pk.some /\ pk.tok.t = "Identifier" THEN POk(pk.tok.s, advance(cur))
        ELSE IF pk.some THEN PErr(tokKind, tokWhat, pk, cur)
        ELSE PErr(eofKind, eofWhat, NoToken, cur)

(* Expressions *)

ExprNumber(n) == [e |-> "Number", v |-> n]
ExprString(s) == [e |-> "String", v |-> s]
ExprBool(b) == [e |-> "Bool", v |-> b]
ExprIdentifier(s) == [e |-> "Identifier", v |-> s]
UnaryOperation(operand, operator) ==
    [e |-> "UnaryOperation", operand |-> operand, operator |-> operator]
BinaryOperation(left, operator, right) ==
    [e |-> "BinaryOperation", left_operand |-> left, operator |-> operator,
     right_operand |-> right]

\* a table that gives every binary operator the same precedence
get_binary_precedence_flat(tok) ==
    IF tok \in {Keyword("Or"), Keyword("And")}
       \/ tok.t \in {"Equal", "NotEqual", "GreaterThan", "GreaterThanOrEqual", "LessThan",
                     "LessThanOrEqual", "Plus", "Minus", "Star", "Divide"}
    THEN 1 ELSE 0

\* Parser::get_binary_precedence
get_binary_precedence(tok) ==
    CASE tok = Keyword("Or") -> 1
      [] tok = Keyword("And") -> 2
      [] tok.t \in {"Equal", "NotEqual"} -> 3
      [] tok.t \in {"GreaterThan", "GreaterThanOrEqual", "LessThan", "LessThanOrEqual"} -> 4
      [] tok.t \in {"Plus", "Minus"} -> 5
      [] tok.t \in {"Star", "Divide"} -> 6
      [] OTHER -> 0

\* Parser::parse_binary_operator
parse_binary_operator(toks, cur) ==
    LET pk == peek(toks, cur)
        op(name) == POk(name, advance(cur))
    IN  IF ~pk.some THEN PErr("UnexpectedEOF", "", NoToken, cur)
        ELSE CASE pk.tok.t = "Plus" -> op("Plus")
               [] pk.tok.t = "Minus" -> op("Minus")
               [] pk.tok.t = "Star" -> op("Multiply")
               [] pk.tok.t = "Divide" -> op("Divide")
               [] pk.tok.t = "Equal" -> op("Equal")
               [] pk.tok.t = "NotEqual" -> op("NotEqual")
               [] pk.tok.t = "GreaterThan" -> op("GreaterThan")
               [] pk.tok.t = "GreaterThanOrEqual" -> op("GreaterThanOrEqual")
               [] pk.tok.t = "LessThan" -> op("LessThan")
               [] pk.tok.t = "LessThanOrEqual" -> op("LessThanOrEqual")
               [] pk.tok = Keyword("And") -> op("And")
               [] pk.tok = Keyword("Or") -> op("Or")
               [] OTHER -> PErr("ParserError", "Unexpected token in operator position",
                                pk, cur)

\* the tokens on which the loop of parse_binary_expression breaks at once
is_terminator(tok) ==
    \/ tok = Semicolon
    \/ tok = Comma
    \/ tok = Keyword("From")
    \/ tok = RightParentheses
    \/ tok = Keyword("Order")
    \/ tok = Keyword("Asc")
    \/ tok = Keyword("Desc")

RECURSIVE parse_binary_expression(_, _, _)
RECURSIVE binary_loop(_, _, _, _)
RECURSIVE binary_iteration(_, _, _, _)
RECURSIVE parse_prefix_expression(_, _)

\* Parser::parse_expression
parse_expression(toks, cur) == parse_binary_expression(toks, cur, 0)

\* a prefix operator that takes the next primary only
unary_operand_tight(toks, cur, operator) ==
    Then(parse_prefix_expression(toks, advance(cur)), LAMBDA r :
        POk(UnaryOperation(r.val, operator), r.cur))

\* the operand of a prefix operator: a whole parse_expression()
unary_operand(toks, cur, operator) ==
    Then(parse_expression(toks, advance(cur)), LAMBDA r :
        POk(UnaryOperation(r.val, operator), r.cur))

\* Parser::parse_prefix_expression
parse_prefix_expression(toks, cur) ==
    LET pk == peek(toks, cur)
    IN  IF ~pk.some THEN PErr("UnexpectedEOF", "", NoToken, cur)
        ELSE CASE pk.tok.t = "Number" -> POk(ExprNumber(pk.tok.n), advance(cur))
               [] pk.tok.t = "String" -> POk(ExprString(pk.tok.s), advance(cur))
               [] pk.tok.t = "Identifier" -> POk(ExprIdentifier(pk.tok.s), advance(cur))
               [] pk.tok = Keyword("True") -> POk(ExprBool(TRUE), advance(cur))
               [] pk.tok = Keyword("False") -> POk(ExprBool(FALSE), advance(cur))
               [] pk.tok.t = "LeftParentheses" ->
                    Then(parse_expression(toks, advance(cur)), LAMBDA r :
                    Then(expect_token(toks, r.cur, RightParentheses), LAMBDA c :
                        POk(r.val, c.cur)))
               [] pk.tok.t = "Minus" -> unary_operand(toks, cur, "Minus")
               [] pk.tok.t = "Plus" -> unary_operand(toks, cur, "Plus")
               [] pk.tok = Keyword("Not") -> unary_operand(toks, cur, "Not")
               [] OTHER -> PErr("ParserError", "Unexpected token in prefix position",
                                pk, cur)

\* one iteration of the while loop of Parser::parse_binary_expression
binary_iteration(toks, cur, left, min_precedence) ==
    LET pk == peek(toks, cur)
    IN  IF ~pk.some \/ is_terminator(pk.tok) THEN Leave(left, cur)
        ELSE IF get_binary_precedence(pk.tok) < min_precedence THEN Leave(left, cur)
        ELSE
        Then(parse_binary_operator(toks, cur), LAMBDA operator :
        Then(parse_binary_expression(toks, operator.cur,
                                     get_binary_precedence(pk.tok) + 1), LAMBDA right :
            Again(BinaryOperation(left, operator.val, right.val), right.cur)))

\* the while loop of Parser::parse_binary_expression
binary_loop(toks, cur, left, min_precedence) ==
    Then(binary_iteration(toks, cur, left, min_precedence), LAMBDA step :
        IF step.again THEN binary_loop(toks, step.cur, step.val, min_precedence)
        ELSE POk(step.val, step.cur))

\* Parser::parse_binary_expression
parse_binary_expression(toks, cur, min_precedence) ==
    Then(parse_prefix_expression(toks, cur), LAMBDA left :
        binary_loop(toks, left.cur, left.val, min_precedence))

(* SELECT *)

\* one iteration of the loop of Parser::parse_expressions_list
expressions_iteration(toks, cur, expressions) ==
    Then(parse_expression(toks, cur), LAMBDA expr :
        LET list == Append(expressions, expr.val)
            pk == peek(toks, expr.cur)
        IN  IF ~pk.some THEN PErr("UnexpectedEOF", "", NoToken, expr.cur)
            ELSE IF pk.tok = Comma THEN Again(list, advance(expr.cur))
            ELSE IF pk.tok = Keyword("From") \/ pk.tok = Semicolon
                 THEN Leave(list, expr.cur)
            ELSE PErr("UnexpectedToken", "comma or FROM", pk, expr.cur))

\* the loop of Parser::parse_expressions_list
RECURSIVE expressions_loop(_, _, _)
expressions_loop(toks, cur, expressions) ==
    Then(expressions_iteration(toks, cur, expressions), LAMBDA step :
        IF step.again THEN expressions_loop(toks, step.cur, step.val)
        ELSE POk(step.val, step.cur))

\* Parser::parse_expressions_list
parse_expressions_list(toks, cur) ==
    IF peek_is(toks, cur, Wildcard)
    THEN LET pk == peek(toks, advance(cur))
         IN  IF ~pk.some THEN PErr("UnexpectedEOF", "", NoToken, advance(cur))
             ELSE IF pk.tok = Keyword("From")
                  THEN POk(<<ExprIdentifier(<<"*">>)>>, advance(cur))
             ELSE PErr("UnexpectedToken", "FROM", pk, advance(cur))
    ELSE expressions_loop(toks, cur, <<>>)

\* one iteration of the ORDER BY loop of Parser::parse_select
orderby_iteration(toks, cur, orderby) ==
    Then(parse_expression(toks, cur), LAMBDA expr :
    Then(IF peek_is(toks, expr.cur, Keyword("Asc"))
         THEN POk(UnaryOperation(expr.val, "Asc"), advance(expr.cur))
         ELSE IF peek_is(toks, expr.cur, Keyword("Desc"))
         THEN POk(UnaryOperation(expr.val, "Desc"), advance(expr.cur))
         ELSE POk(expr.val, expr.cur), LAMBDA dir :
        IF peek_is(toks, dir.cur, Comma)
        THEN Again(Append(orderby, dir.val), advance(dir.cur))
        ELSE Leave(Append(orderby, dir.val), dir.cur)))

\* the ORDER BY loop of Parser::parse_select
RECURSIVE orderby_loop(_, _, _)
orderby_loop(toks, cur, orderby) ==
    Then(orderby_iteration(toks, cur, orderby), LAMBDA step :
        IF step.again THEN orderby_loop(toks, step.cur, step.val)
        ELSE POk(step.val, step.cur))

\* the optional WHERE clause of Parser::parse_select
where_clause(toks, cur) ==
    IF peek_is(toks, cur, Keyword("Where"))
    THEN Then(parse_expression(toks, advance(cur)), LAMBDA r :
             POk([some |-> TRUE, expr |-> r.val], r.cur))
    ELSE POk([some |-> FALSE], cur)

\* an ORDER BY clause that stores its terms last to first
orderby_clause_reversed(toks, cur) ==
    IF peek_is(toks, cur, Keyword("Order"))
    THEN Then(expect_keyword(toks, advance(cur), "By"), LAMBDA by :
         Then(orderby_loop(toks, by.cur, <<>>), LAMBDA list :
             POk([i \in 1..Len(list.val) |-> list.val[Len(list.val) + 1 - i]], list.cur)))
    ELSE POk(<<>>, cur)

\* the optional ORDER BY clause of Parser::parse_select
orderby_clause(toks, cur) ==
    IF peek_is(toks, cur, Keyword("Order"))
    THEN Then(expect_keyword(toks, advance(cur), "By"), LAMBDA by :
             orderby_loop(toks, by.cur, <<>>))
    ELSE POk(<<>>, cur)

Select(columns, from, where, orderby) ==
    [stmt |-> "Select", columns |-> columns, from |-> from, where |-> where,
     orderby |-> orderby]

\* Parser::parse_select
parse_select(toks, cur) ==
    Then(parse_expressions_list(toks, advance(cur)), LAMBDA columns :
        IF ~peek_is(toks, columns.cur, Keyword("From"))
        THEN PErr("MissingFromClause", "", NoToken, columns.cur)
        ELSE
    Then(expect_name(toks, advance(columns.cur),
                     "ParserError", "Expected table name", "UnexpectedEOF", ""),
         LAMBDA from :
    Then(where_clause(toks, from.cur), LAMBDA where :
    Then(orderby_clause(toks, where.cur), LAMBDA orderby :
    Then(end_of_statement(toks, orderby.cur), LAMBDA semi :
        POk(Select(columns.val, from.val, where.val, orderby.val), semi.cur))))))

(* CREATE TABLE *)

ForeignKey(column, referenced_table, referenced_column) ==
    [c |-> "ForeignKey", column |-> column, referenced_table |-> referenced_table,
     referenced_column |-> referenced_column]
PrimaryKey == [c |-> "PrimaryKey"]
NotNull == [c |-> "NotNull"]
Check(expr) == [c |-> "Check", expr |-> expr]

TableColumn(column_name, column_type, constraints) ==
    [column_name |-> column_name, column_type |-> column_type,
     constraints |-> constraints]

\* KEY (col) REFERENCES table(col), after FOREIGN was consumed
foreign_key_clause(toks, cur) ==
    Then(expect_keyword(toks, cur, "Key"), LAMBDA key :
    Then(expect_token(toks, key.cur, LeftParentheses), LAMBDA lp1 :
    Then(expect_name(toks, lp1.cur,
                     "InvalidForeignKey", "Expected column name",
                     "InvalidForeignKey", "Missing column name"), LAMBDA column :
    Then(expect_token(toks, column.cur, RightParentheses), LAMBDA rp1 :
    Then(expect_keyword(toks, rp1.cur, "References"), LAMBDA refs :
    Then(expect_name(toks, refs.cur,
                     "InvalidForeignKey", "Expected table name",
                     "InvalidForeignKey", "Missing referenced table name"),
         LAMBDA referenced_table :
    Then(expect_token(toks, referenced_table.cur, LeftParentheses), LAMBDA lp2 :
    Then(expect_name(toks, lp2.cur,
                     "InvalidForeignKey", "Expected column name",
                     "InvalidForeignKey", "Missing referenced column name"),
         LAMBDA referenced_column :
    Then(expect_token(toks, referenced_column.cur, RightParentheses), LAMBDA rp2 :
        POk(ForeignKey(column.val, referenced_table.val, referenced_column.val),
            rp2.cur))))))))))

\* a cast that keeps the low 16 bits only
as_usize_16(n) == <<n[1], 0, 0, 0>>

\* `value as usize`, on a target whose usize has 64 bits
as_usize(n) == n

\* the column type of Parser::parse_column_definition
column_type(toks, cur) ==
    LET pk == peek(toks, cur)
    IN  IF ~pk.some THEN PErr("UnexpectedEOF", "", NoToken, cur)
        ELSE IF pk.tok = Keyword("Int") THEN POk([ty |-> "Int"], advance(cur))
        ELSE IF pk.tok = Keyword("Bool") THEN POk([ty |-> "Bool"], advance(cur))
        ELSE IF pk.tok = Keyword("Varchar")
        THEN IF peek_is(toks, advance(cur), LeftParentheses)
             THEN LET at == advance(advance(cur))
                      size == peek(toks, at)
                  IN  IF ~size.some
                      THEN PErr("InvalidVarcharLength", "Missing VARCHAR length",
                                NoToken, at)
                      ELSE IF size.tok.t # "Number"
                      THEN PErr("InvalidVarcharLength", "Expected number", size, at)
                      ELSE Then(expect_token(toks, advance(at), RightParentheses),
                                LAMBDA rp :
                                    POk([ty |-> "Varchar", size |-> as_usize(size.tok.n)],
                                        rp.cur))
             ELSE PErr("InvalidVarcharLength", "Missing VARCHAR length specification",
                       NoToken, advance(cur))
        ELSE PErr("ParserError", "Expected type", pk, cur)

\* a push that keeps one entry of each constraint
push_once(constraints, constraint) ==
    IF \E i \in 1..Len(constraints) : constraints[i] = constraint
    THEN constraints
    ELSE Append(constraints, constraint)

\* constraints.push(constraint)
push(constraints, constraint) == Append(constraints, constraint)

\* one iteration of the constraint loop of Parser::parse_column_definition
constraints_iteration(toks, cur, constraints) ==
    IF peek_is(toks, cur, Keyword("Primary"))
    THEN Then(expect_keyword(toks, advance(cur), "Key"), LAMBDA key :
             Again(push(constraints, PrimaryKey), key.cur))
    ELSE IF peek_is(toks, cur, Keyword("Foreign"))
    THEN Then(foreign_key_clause(toks, advance(cur)), LAMBDA fk :
             Again(push(constraints, fk.val), fk.cur))
    ELSE IF peek_is(toks, cur, Keyword("Not"))
    THEN Then(expect_keyword(toks, advance(cur), "Null"), LAMBDA null :
             Again(push(constraints, NotNull), null.cur))
    ELSE IF peek_is(toks, cur, Keyword("Check"))
    THEN IF peek_is(toks, advance(cur), LeftParentheses)
         THEN Then(parse_expression(toks, advance(advance(cur))), LAMBDA expr :
              Then(expect_token(toks, expr.cur, RightParentheses), LAMBDA rp :
                  Again(push(constraints, Check(expr.val)), rp.cur)))
         ELSE PErr("ParserError", "Expected '(' after CHECK", NoToken, advance(cur))
    ELSE Leave(constraints, cur)

\* the constraint loop of Parser::parse_column_definition
RECURSIVE constraints_loop(_, _, _)
constraints_loop(toks, cur, constraints) ==
    Then(constraints_iteration(toks, cur, constraints), LAMBDA step :
        IF step.again THEN constraints_loop(toks, step.cur, step.val)
        ELSE POk(step.val, step.cur))

\* Parser::parse_column_definition
parse_column_definition(toks, cur) ==
    Then(expect_name(toks, cur,
                     "ParserError", "Expected column name", "UnexpectedEOF", ""),
         LAMBDA column_name :
    Then(column_type(toks, column_name.cur), LAMBDA type :
    Then(constraints_loop(toks, type.cur, <<>>), LAMBDA constraints :
        POk(TableColumn(column_name.val, type.val, constraints.val), constraints.cur))))

\* a search that takes every column for the one looked for
attach_foreign_key_anywhere(column_list, fk) ==
    [found |-> TRUE, column_list |-> column_list]

\* a search that stops at the last column of the name instead of the first
attach_foreign_key_last(column_list, fk) ==
    LET hits == {i \in 1..Len(column_list) : column_list[i].column_name = fk.column}
    IN  IF hits = {} THEN [found |-> FALSE, column_list |-> column_list]
        ELSE LET i == CHOOSE j \in hits : \A h \in hits : j >= h
             IN  [found |-> TRUE,
                  column_list |-> [column_list EXCEPT ![i].constraints = Append(@, fk)]]

\* the search of column_list for the column of a table-level FOREIGN KEY
attach_foreign_key(column_list, fk) ==
    LET hits == {i \in 1..Len(column_list) : column_list[i].column_name = fk.column}
    IN  IF hits = {} THEN [found |-> FALSE, column_list |-> column_list]
        ELSE LET i == CHOOSE j \in hits : \A h \in hits : j <= h
             IN  [found |-> TRUE,
                  column_list |-> [column_list EXCEPT ![i].constraints = Append(@, fk)]]

\* one iteration of the item loop of Parser::parse_create_table
table_iteration(toks, cur, column_list) ==
    IF peek_is(toks, cur, RightParentheses) THEN Leave(column_list, advance(cur))
    ELSE
    Then(IF column_list # <<>> THEN expect_token(toks, cur, Comma) ELSE POk(NoVal, cur),
         LAMBDA comma :
        IF peek_is(toks, comma.cur, Keyword("Foreign"))
        THEN Then(foreign_key_clause(toks, advance(comma.cur)), LAMBDA fk :
                 LET hit == attach_foreign_key(column_list, fk.val)
                 IN  IF hit.found THEN Again(hit.column_list, fk.cur)
                     ELSE PErr("InvalidForeignKey", "Column not found in table",
                               NoToken, fk.cur))
        ELSE Then(parse_column_definition(toks, comma.cur), LAMBDA col :
                 Again(Append(column_list, col.val), col.cur)))

\* the item loop of Parser::parse_create_table
RECURSIVE table_loop(_, _, _)
table_loop(toks, cur, column_list) ==
    Then(table_iteration(toks, cur, column_list), LAMBDA step :
        IF step.again THEN table_loop(toks, step.cur, step.val)
        ELSE POk(step.val, step.cur))

CreateTable(table_name, column_list) ==
    [stmt |-> "CreateTable", table_name |-> table_name, column_list |-> column_list]

\* Parser::parse_create_table
parse_create_table(toks, cur) ==
    Then(expect_keyword(toks, cur, "Table"), LAMBDA table :
    Then(expect_name(toks, table.cur,
                     "ParserError", "Expected table name", "UnexpectedEOF", ""),
         LAMBDA table_name :
    Then(expect_token(toks, table_name.cur, LeftParentheses), LAMBDA lp :
    Then(table_loop(toks, lp.cur, <<>>), LAMBDA column_list :
    Then(end_of_statement(toks, column_list.cur), LAMBDA semi :
        POk(CreateTable(table_name.val, column_list.val), semi.cur))))))

(* CREATE INDEX *)

\* a CreateIndex with the table and the column exchanged
CreateIndex_swapped(is_unique, index_name, table_name, column_name) ==
    [stmt |-> "CreateIndex", is_unique |-> is_unique, index_name |-> index_name,
     table_name |-> column_name, column_name |-> table_name]

CreateIndex(is_unique, index_name, table_name, column_name) ==
    [stmt |-> "CreateIndex", is_unique |-> is_unique, index_name |-> index_name,
     table_name |-> table_name, column_name |-> column_name]

\* Parser::parse_create_index
parse_create_index(toks, cur) ==
    LET is_unique == peek_is(toks, cur, Keyword("Unique"))
    IN
    Then(expect_keyword(toks, IF is_unique THEN advance(cur) ELSE cur, "Index"),
         LAMBDA index :
    Then(expect_name(toks, index.cur,
                     "ParserError", "Expected index name", "UnexpectedEOF", ""),
         LAMBDA index_name :
    Then(expect_keyword(toks, index_name.cur, "On"), LAMBDA on :
    Then(expect_name(toks, on.cur,
                     "ParserError", "Expected table name", "UnexpectedEOF", ""),
         LAMBDA table_name :
    Then(expect_token(toks, table_name.cur, LeftParentheses), LAMBDA lp :
    Then(expect_name(toks, lp.cur,
                     "ParserError", "Expected column name", "UnexpectedEOF", ""),
         LAMBDA column_name :
    Then(expect_token(toks, column_name.cur, RightParentheses), LAMBDA rp :
    Then(end_of_statement(toks, rp.cur), LAMBDA semi :
        POk(CreateIndex(is_unique, index_name.val, table_name.val, column_name.val),
            semi.cur)))))))))

(* The entry point *)

\* a dispatch that knows CREATE TABLE and CREATE INDEX but not CREATE UNIQUE
dispatch_without_unique(toks, cur) ==
    IF peek_is(toks, cur, Keyword("Select")) THEN "parse_select"
    ELSE IF peek_is(toks, cur, Keyword("Create"))
    THEN IF peek_is(toks, advance(cur), Keyword("Table")) THEN "parse_create_table"
         ELSE IF peek_is(toks, advance(cur), Keyword("Index")) THEN "parse_create_index"
         ELSE ""
    ELSE ""

\* the statement parser Parser::parse hands the tokens to ("" when it hands them to none)
dispatch(toks, cur) ==
    IF peek_is(toks, cur, Keyword("Select")) THEN "parse_select"
    ELSE IF peek_is(toks, cur, Keyword("Create"))
    THEN IF peek_is(toks, advance(cur), Keyword("Table")) THEN "parse_create_table"
         ELSE IF peek_is(toks, advance(cur), Keyword("Unique"))
                 \/ peek_is(toks, advance(cur), Keyword("Index"))
         THEN "parse_create_index"
         ELSE ""
    ELSE ""

\* Parser::parse
parse(toks, cur) ==
    LET route == dispatch(toks, cur)
    IN  CASE route = "parse_select" -> parse_select(toks, cur)
          [] route = "parse_create_table" -> parse_create_table(toks, advance(cur))
          [] route = "parse_create_index" -> parse_create_index(toks, advance(cur))
          [] OTHER ->
               IF ~peek(toks, cur).some THEN PErr("UnexpectedEOF", "", NoToken, cur)
               ELSE IF peek(toks, cur).tok # Keyword("Create")
               THEN PErr("UnexpectedToken", "SELECT or CREATE", peek(toks, cur), cur)
               ELSE IF ~peek(toks, advance(cur)).some
               THEN PErr("UnexpectedEOF", "", NoToken, advance(cur))
               ELSE PErr("UnexpectedToken", "TABLE or INDEX", peek(toks, advance(cur)),
                         advance(cur))

-----------------------------------------------------------------------------
(* The calls made on one Tokenizer. *)

NoItem == [kind |-> "-", tok |-> Eof, err |-> ""]
ItemNone == [kind |-> "None", tok |-> Eof, err |-> ""]
ItemOk(tok) == [kind |-> "Ok", tok |-> tok, err |-> ""]
ItemErr(msg) == [kind |-> "Err", tok |-> Eof, err |-> msg]

\* the fields of the Tokenizer a scan works on
Self == [input |-> input, current_position |-> current_position,
         is_after_select |-> is_after_select]

\* what a call returned (r: the scan it ran, if any; item: what next() returned)
Returned(op, scanned, r, item) ==
    [op |-> op, in0 |-> input, flag0 |-> is_after_select,
     pos0 |-> current_position, scanned |-> scanned,
     ok |-> r.ok, tokens |-> r.tokens, kind |-> r.kind, err |-> r.err,
     partial |-> r.scanned, item |-> item]

NoScan == [ok |-> FALSE, tokens |-> <<>>, kind |-> "", err |-> "", scanned |-> <<>>]

\* tokenizer.tokenize(), called directly
Tokenize ==
    /\ eager < MaxEager
    /\ LET r == tokenize(Self)
       IN  /\ input' = r.self.input
           /\ current_position' = r.self.current_position
           /\ is_after_select' = r.self.is_after_select
           /\ ret' = Returned("tokenize", TRUE, r, NoItem)
    /\ eager' = eager + 1
    /\ scans' = scans + 1
    /\ UNCHANGED <<text, tokens, current_token, pulled, parsevars>>

\* replay that stops one token early
replay_short(toks, cur) ==
    IF cur + 1 >= Len(toks)
    THEN [item |-> ItemNone, current_token |-> cur]
    ELSE [item |-> ItemOk(toks[cur + 1]), current_token |-> cur + 1]

\* the second half of Iterator::next: replay from the cache
replay(toks, cur) ==
    IF cur >= Len(toks)
    THEN [item |-> ItemNone, current_token |-> cur]
    ELSE [item |-> ItemOk(toks[cur + 1]), current_token |-> cur + 1]

\* <Tokenizer as Iterator>::next
next ==
    /\ Len(pulled) < MaxPulls
    /\ IF tokens = <<>>
       THEN LET r == tokenize(Self)
            IN  /\ input' = r.self.input
                /\ current_position' = r.self.current_position
                /\ is_after_select' = r.self.is_after_select
                /\ scans' = scans + 1
                /\ IF r.ok
                   THEN LET p == replay(r.tokens, 0)
                        IN  /\ tokens' = r.tokens
                            /\ current_token' = p.current_token
                            /\ ret' = Returned("next", TRUE, r, p.item)
                            /\ pulled' = Append(pulled, p.item)
                   ELSE /\ UNCHANGED <<tokens, current_token>>
                        /\ ret' = Returned("next", TRUE, r, ItemErr(r.err))
                        /\ pulled' = Append(pulled, ItemErr(r.err))
       ELSE LET p == replay(tokens, current_token)
            IN  /\ current_token' = p.current_token
                /\ ret' = Returned("next", FALSE, NoScan, p.item)
                /\ pulled' = Append(pulled, p.item)
                /\ UNCHANGED <<input, current_position, is_after_select, tokens, scans>>
    /\ UNCHANGED <<text, eager, parsevars>>

-----------------------------------------------------------------------------
(* Input texts: every concatenation of at most MaxPieces fragments. *)

RECURSIVE Concats(_, _)
Concats(F, k) ==
    IF k = 0 THEN {<<>>}
    ELSE LET shorter == Concats(F, k - 1)
         IN  shorter \cup {p \o f : p \in shorter, f \in F}

LexFragments ==
    {<<"s", "e", "l", "e", "c", "t">>, <<"f", "r", "o", "m">>, <<"*">>, <<",">>, <<" ">>, <<"a">>, <<"1">>,
     <<"!">>, <<"=">>, <<"@">>, <<"'">>, <<"\"">>,
     <<"1", "8", "4", "4", "6", "7", "4", "4", "0", "7", "3", "7", "0", "9", "5", "5", "1", "6", "1", "5">>}

\* Tokenizer::new(str)
NewTokenizer(str) ==
    /\ text = str
    /\ input = new(str).input
    /\ is_after_select = new(str).is_after_select
    /\ current_position = new(str).current_position
    /\ tokens = <<>>
    /\ current_token = 0
    /\ ret = [op |-> "new", in0 |-> str, flag0 |-> FALSE, pos0 |-> 0, scanned |-> FALSE,
              ok |-> FALSE, tokens |-> <<>>, kind |-> "", err |-> "",
              partial |-> <<>>, item |-> NoItem]
    /\ pulled = <<>>
    /\ eager = 0
    /\ scans = 0

\* Parser::new(toks)
\* no loop is followed
NoLoop ==
    [loop |-> "", state |-> "", locals |-> <<>>, min_precedence |-> 0, from |-> 0,
     iterations |-> 0]

NewParser(toks) ==
    /\ parser_tokens = toks
    /\ current = 0
    /\ running = NoLoop
    /\ parsed = [calls |-> 0, cur0 |-> 0, route |-> "", res |-> PErr("", "", NoToken, 0)]

\* parser.parse()
Parse ==
    /\ parsed.calls < MaxParses
    /\ LET r == parse(parser_tokens, current)
       IN  /\ current' = r.cur
           /\ parsed' = [calls |-> parsed.calls + 1, cur0 |-> current,
                         route |-> dispatch(parser_tokens, current), res |-> r]
    /\ UNCHANGED <<parser_tokens, running, lexvars>>

\* build_statement of src/src/main.rs: tokenize, then parse
build_statement(str) ==
    LET lexed == tokenize(new(str))
    IN  IF ~lexed.ok
        THEN PErr("LexerError", "Lexer error: " \o lexed.err, NoToken, 0)
        ELSE parse(lexed.tokens, 0)

-----------------------------------------------------------------------------
(* Specifications.  Each starts from a fresh object built on an input of a *)
(* bounded set and makes the calls of the object's interface.              *)

\* texts for the scan and the iterator: keywords, '*', operands, each kind of error
Init ==
    /\ \E str \in Concats(LexFragments, MaxPieces) : NewTokenizer(str)
    /\ NewParser(<<>>)

Next == Tokenize \/ next

Spec == Init /\ [][Next]_vars

\* texts of digits and blanks, around 2^64 - 1
NumberFragments ==
    {<<"0">>, <<"5">>, <<"6">>, <<"9">>, <<" ">>,
     <<"1", "8", "4", "4", "6", "7", "4", "4", "0", "7", "3", "7", "0", "9", "5", "5", "1", "6", "1">>}

InitNumber ==
    /\ \E str \in Concats(NumberFragments, MaxPieces) : NewTokenizer(str)
    /\ NewParser(<<>>)

SpecNumber == InitNumber /\ [][Next]_vars

\* texts with letters of both cases, outside and inside string literals
CaseFragments ==
    {<<"s", "e", "L", "e", "c", "t", " ">>, <<"a">>, <<"B">>,
     <<" ", "f", "R", "o", "m", " ", "t", ";">>,
     <<"'", "a", "B", "'">>, <<"'">>, <<"\"">>, <<",">>}

InitCase ==
    /\ \E str \in Concats(CaseFragments, MaxPieces) : NewTokenizer(str)
    /\ NewParser(<<>>)

SpecCase == InitCase /\ [][Next]_vars

\* token buffers for the parser
ident(c) == Identifier(<<c>>)

ParseFragments ==
    {<<Keyword("Select")>>, <<Wildcard>>, <<ident("A")>>,
     <<Keyword("From"), ident("T")>>, <<Semicolon>>, <<Comma>>,
     <<Keyword("Create")>>,
     <<Keyword("Table"), ident("T"), LeftParentheses, ident("A"), Keyword("Int"),
       RightParentheses>>,
     <<Keyword("Unique")>>,
     <<Keyword("Index"), ident("I"), Keyword("On"), ident("T"), LeftParentheses,
       ident("A"), RightParentheses>>,
     <<Eof>>, <<RightParentheses>>, <<Plus>>}

InitParse ==
    /\ NewTokenizer(<<>>)
    /\ \E toks \in Concats(ParseFragments, MaxPhrases) : NewParser(toks)

NextParse == Parse

SpecParse == InitParse /\ [][NextParse]_vars

\* token buffers SELECT expression FROM T ;
BinaryOperatorTokens ==
    {Plus, Minus, Star, Divide, Equal, NotEqual, LessThan, GreaterThan, LessThanOrEqual,
     GreaterThanOrEqual, Keyword("And"), Keyword("Or")}

\* A op 1 op B for every two binary operators
OperatorPairs ==
    {<<ident("A"), op1, Number(U64(1)), op2, ident("B")>> :
        op1 \in BinaryOperatorTokens, op2 \in BinaryOperatorTokens}

ExprFragments ==
    {<<Number(U64(1))>>, <<ident("A")>>, <<Plus>>, <<Star>>, <<Minus>>,
     <<LeftParentheses>>, <<RightParentheses>>}

\* 2*-1+3, (1+2)*3, NOT A = 1 AND B, A * (1 - - B), - (1 + 2) * 3
LongerExpressions ==
    {<<Number(U64(2)), Star, Minus, Number(U64(1)), Plus, Number(U64(3))>>,
     <<LeftParentheses, Number(U64(1)), Plus, Number(U64(2)), RightParentheses, Star,
       Number(U64(3))>>,
     <<Keyword("Not"), ident("A"), Equal, Number(U64(1)), Keyword("And"), ident("B")>>,
     <<ident("A"), Star, LeftParentheses, Number(U64(1)), Minus, Minus, ident("B"),
       RightParentheses>>,
     <<Minus, LeftParentheses, Number(U64(1)), Plus, Number(U64(2)), RightParentheses,
       Star, Number(U64(3))>>}

select_from(expr) ==
    <<Keyword("Select")>> \o expr \o <<Keyword("From"), ident("T"), Semicolon>>

InitExpr ==
    /\ NewTokenizer(<<>>)
    /\ \E expr \in OperatorPairs \cup LongerExpressions
                    \cup Concats(ExprFragments, MaxExprTokens) :
          NewParser(select_from(expr))

SpecExpr == InitExpr /\ [][NextParse]_vars

\* token buffers that are a statement with up to MaxEdits tokens removed or
\* replaced by a token of T
Remove(s, i) == SubSeq(s, 1, i - 1) \o SubSeq(s, i + 1, Len(s))

Edits(s, T) ==
    {Remove(s, i) : i \in 1..Len(s)} \cup {[s EXCEPT ![i] = t] : i \in 1..Len(s), t \in T}

RECURSIVE Edited(_, _, _)
Edited(S, T, k) ==
    IF k = 0 THEN S
    ELSE LET E == Edited(S, T, k - 1)
         IN  E \cup UNION {Edits(s, T) : s \in E}

\* SELECT A FROM T ... ;
select_a_from_t(clauses) ==
    <<Keyword("Select"), ident("A"), Keyword("From"), ident("T")>> \o clauses
        \o <<Semicolon>>

where_a_is_1 == <<Keyword("Where"), ident("A"), Equal, Number(U64(1))>>

order_by == <<Keyword("Order"), Keyword("By")>>

\* SELECT statements with and without WHERE and ORDER BY, in and out of order
OrderByStatements ==
    {select_a_from_t(order_by \o <<ident("A"), Keyword("Asc"), Comma, ident("B"),
                                   Keyword("Desc"), Comma, ident("A")>>),
     select_a_from_t(where_a_is_1 \o order_by \o <<ident("B")>>),
     select_a_from_t(where_a_is_1),
     select_a_from_t(order_by \o <<ident("A"), Plus, Number(U64(1)), Keyword("Desc"),
                                   Comma, ident("B")>>),
     select_a_from_t(order_by \o <<ident("B")>> \o where_a_is_1)}

OrderByTokens ==
    {Keyword("Asc"), Keyword("Desc"), Comma, ident("B"), Keyword("Order"),
     Keyword("Where"), Semicolon}

InitOrderBy ==
    /\ NewTokenizer(<<>>)
    /\ \E toks \in Edited(OrderByStatements, OrderByTokens, MaxEdits) : NewParser(toks)

SpecOrderBy == InitOrderBy /\ [][NextParse]_vars

\* CREATE TABLE T ( ... ) ; around the items
create_table(items) ==
    <<Keyword("Create"), Keyword("Table"), ident("T"), LeftParentheses>>
        \o items \o <<RightParentheses, Semicolon>>

\* FOREIGN KEY (c) REFERENCES U (B)
foreign_key(c) ==
    <<Keyword("Foreign"), Keyword("Key"), LeftParentheses, ident(c), RightParentheses,
      Keyword("References"), ident("U"), LeftParentheses, ident("B"), RightParentheses>>

column(c) == <<ident(c), Keyword("Int")>>

\* CREATE TABLE statements with a table-level FOREIGN KEY after, before and
\* between the columns
TableStatements ==
    {create_table(column("A") \o <<Comma>> \o foreign_key("A")),
     create_table(foreign_key("A") \o <<Comma>> \o column("A")),
     create_table(column("A") \o <<Comma>> \o column("B") \o <<Comma>> \o foreign_key("B")),
     create_table(column("A") \o <<Comma>> \o foreign_key("A") \o <<Comma>> \o column("B"))}

TableTokens ==
    {ident("A"), ident("B"), Comma, LeftParentheses, RightParentheses, Keyword("Key"),
     Semicolon}

InitTable ==
    /\ NewTokenizer(<<>>)
    /\ \E toks \in Edited(TableStatements, TableTokens, MaxEdits) : NewParser(toks)

SpecTable == InitTable /\ [][NextParse]_vars

\* a column of type VARCHAR(n)
varchar(c, n) ==
    <<ident(c), Keyword("Varchar"), LeftParentheses, Number(n), RightParentheses>>

\* CREATE TABLE statements with VARCHAR columns
ColumnStatements ==
    {create_table(varchar("A", U64(255))),
     create_table(column("A") \o <<Comma>> \o varchar("B", <<0, 1, 0, 0>>)
                  \o <<Keyword("Not"), Keyword("Null")>>),
     create_table(varchar("A", Zero) \o <<Keyword("Primary"), Keyword("Key"), Comma>>
                  \o column("B"))}

ColumnTokens ==
    {ident("A"), Number(U64(7)), String(<<"7">>), LeftParentheses, RightParentheses,
     Keyword("Varchar"), Keyword("Int"), Comma}

InitColumn ==
    /\ NewTokenizer(<<>>)
    /\ \E toks \in Edited(ColumnStatements, ColumnTokens, MaxEdits) : NewParser(toks)

SpecColumn == InitColumn /\ [][NextParse]_vars

\* INDEX I ON T ( A ) ;
index_on ==
    <<Keyword("Index"), ident("I"), Keyword("On"), ident("T"), LeftParentheses,
      ident("A"), RightParentheses, Semicolon>>

IndexStatements ==
    {<<Keyword("Create"), Keyword("Unique")>> \o index_on, <<Keyword("Create")>> \o index_on}

IndexTokens ==
    {ident("B"), Keyword("Unique"), Keyword("Index"), Keyword("On"), LeftParentheses,
     RightParentheses, Semicolon, Eof, Number(U64(7))}

InitIndex ==
    /\ NewTokenizer(<<>>)
    /\ \E toks \in Edited(IndexStatements, IndexTokens, MaxEdits) : NewParser(toks)

SpecIndex == InitIndex /\ [][NextParse]_vars

-----------------------------------------------------------------------------
(* What the specification says of a text, stated on the text itself.       *)

Quotes == {"'", "\""}
OperatorChars == {"(", ")", ">", "<", "=", "*", "/", "-", "+", ",", ";"}
IdentifierChars == LowerLetters \cup UpperLetters \cup Digits \cup {"_"}

\* the last index of the maximal run of characters of class that starts at i
RunEnd(s, i, class) ==
    CHOOSE j \in i..Len(s) :
        /\ \A k \in i..j : s[k] \in class
        /\ (j = Len(s) \/ s[j + 1] \notin class)

\* a digit run without its leading zeros ("0" for a run of zeros)
Canonical(run) ==
    LET nz == {i \in 1..Len(run) : run[i] # "0"}
    IN  IF nz = {} THEN <<"0">>
        ELSE SubSeq(run, CHOOSE i \in nz : \A j \in nz : i <= j, Len(run))

\* 2^64 - 1 in decimal
MaxU64Text == <<"1", "8", "4", "4", "6", "7", "4", "4", "0", "7", "3", "7", "0", "9", "5", "5", "1", "6", "1", "5">>

DigitOrder == <<"0", "1", "2", "3", "4", "5", "6", "7", "8", "9">>
DigitRank(c) == CHOOSE r \in 1..10 : DigitOrder[r] = c

\* the decimal value of a digit run is above 2^64 - 1
ExceedsU64(run) ==
    LET d == Canonical(run)
    IN  \/ Len(d) > Len(MaxU64Text)
        \/ /\ Len(d) = Len(MaxU64Text)
           /\ \E i \in 1..Len(d) :
                /\ DigitRank(d[i]) > DigitRank(MaxU64Text[i])
                /\ \A k \in 1..(i - 1) : d[k] = MaxU64Text[k]

NoLexError == [kind |-> "none", ch |-> "", at |-> 0]

\* the first lexical error met reading s from index i on, token by token
RECURSIVE LexErrorFrom(_, _)
LexErrorFrom(s, i) ==
    IF i > Len(s) THEN NoLexError
    ELSE LET c == s[i]
         IN  CASE c \in Whitespace -> LexErrorFrom(s, i + 1)
               [] c \in Quotes ->
                    LET closing == {j \in (i + 1)..Len(s) : s[j] = c}
                    IN  IF closing = {} THEN [kind |-> "unterminated", ch |-> c, at |-> i]
                        ELSE LexErrorFrom(s, 1 + CHOOSE j \in closing :
                                                      \A k \in closing : j <= k)
               [] c = "!" ->
                    IF i < Len(s) /\ s[i + 1] = "=" THEN LexErrorFrom(s, i + 2)
                    ELSE [kind |-> "bang", ch |-> c, at |-> i]
               [] c \in Digits ->
                    LET e == RunEnd(s, i, Digits)
                    IN  IF ExceedsU64(SubSeq(s, i, e))
                        THEN [kind |-> "overflow", ch |-> c, at |-> i]
                        ELSE LexErrorFrom(s, e + 1)
               [] c \in LowerLetters \cup UpperLetters \cup {"_"} ->
                    LexErrorFrom(s, RunEnd(s, i, IdentifierChars) + 1)
               [] c \in OperatorChars -> LexErrorFrom(s, i + 1)
               [] OTHER -> [kind |-> "invalid", ch |-> c, at |-> i]

FirstLexError(s) == LexErrorFrom(s, 1)

\* the message the specification gives each lexical error
LexMessage(e) ==
    CASE e.kind = "unterminated" -> "Unterminated string literal starting with " \o e.ch
      [] e.kind = "invalid" -> "Invalid character: " \o e.ch
      [] e.kind = "bang" -> "Expected '=' after '!'"
      [] e.kind = "overflow" -> "Number too large"
      [] OTHER -> ""

-----------------------------------------------------------------------------
(* Claims about the Tokenizer. *)

\* C1: a scan either returns tokens that end with the only Eof, having consumed
\* the whole input, or returns the LexerError of the first lexical error and no
\* tokens.
C1_TokenizeAllOrNothing ==
    ret.scanned =>
        IF ret.ok
        THEN /\ ret.tokens # <<>>
             /\ ret.tokens[Len(ret.tokens)] = Eof
             /\ \A i \in 1..(Len(ret.tokens) - 1) : ret.tokens[i].t # "Eof"
             /\ input = <<>>
             /\ current_position = ret.pos0 + Len(ret.in0)
        ELSE /\ ret.kind = "LexerError"
             /\ ret.tokens = <<>>
             /\ ret.err = LexMessage(FirstLexError(ret.in0))

\* a second direct call succeeds with tokens after the first one failed part-way
C1_Witness ==
    /\ ret.op = "tokenize" /\ eager = 2
    /\ ret.ok /\ Len(ret.tokens) >= 2
    /\ ret.in0 # text

\* the value of is_after_select when token i of a scan's output was produced,
\* as the specification defines the flag
FlagAt(toks, i, flag0) ==
    LET marks == {j \in 1..(i - 1) : toks[j] = Keyword("Select") \/ toks[j] = Keyword("From")}
    IN  IF marks = {} THEN flag0
        ELSE toks[CHOOSE j \in marks : \A k \in marks : k <= j] = Keyword("Select")

\* C2: in the output of a scan, a '*' is Wildcard exactly when the flag is set
\* and the token before it is the SELECT keyword or a comma, and Star otherwise.
C2_WildcardIffAfterSelectOrComma ==
    (ret.scanned /\ ret.ok) =>
        \A i \in 1..Len(ret.tokens) :
            ret.tokens[i].t \in {"Wildcard", "Star"} =>
                (ret.tokens[i] = Wildcard <=>
                    /\ FlagAt(ret.tokens, i, ret.flag0)
                    /\ i > 1
                    /\ (ret.tokens[i - 1] = Keyword("Select") \/ ret.tokens[i - 1] = Comma))

\* C3: pulled from a fresh Tokenizer, a lexical error is followed by None only.
C3_ErrorEndsIteration ==
    eager = 0 =>
        \A i, j \in 1..Len(pulled) :
            (i < j /\ pulled[i].kind = "Err") => pulled[j].kind = "None"

\* C4: when the eager scan of the text succeeds, the items pulled from a fresh
\* Tokenizer are Ok of its tokens, in order and each once, ending with Eof, and
\* None from then on; the scan runs once, on the first pull.
C4_IteratorReplaysEagerTokens ==
    (eager = 0 /\ tokenize(new(text)).ok) =>
        LET E == tokenize(new(text)).tokens
        IN  /\ \A i \in 1..Len(pulled) :
                 pulled[i] = IF i <= Len(E) THEN ItemOk(E[i]) ELSE ItemNone
            /\ Len(pulled) >= Len(E) => pulled[Len(E)] = ItemOk(Eof)
            /\ scans = IF pulled = <<>> THEN 0 ELSE 1

\* a token, Eof, then None twice
C4_Witness ==
    /\ eager = 0 /\ Len(pulled) >= 4
    /\ pulled[1].kind = "Ok" /\ pulled[1].tok # Eof
    /\ pulled[Len(pulled) - 2] = ItemOk(Eof)
    /\ pulled[Len(pulled) - 1] = ItemNone
    /\ pulled[Len(pulled)] = ItemNone

\* C7: a scan fails exactly when the text holds an unterminated string, a
\* character that starts no token, a '!' without '=' or a digit run above
\* 2^64 - 1, and then with a LexerError.
C7_FailsIffLexicalError ==
    ret.scanned =>
        /\ ~ret.ok <=> FirstLexError(ret.in0).kind # "none"
        /\ ~ret.ok => ret.kind = "LexerError"

\* a string opened by ' that holds a " and is never closed
C7_Witness ==
    /\ ret.scanned /\ ~ret.ok
    /\ ret.err = "Unterminated string literal starting with '"
    /\ \E i \in 1..Len(ret.in0) : ret.in0[i] = "\""

\* the digit runs of a text, in order
RECURSIVE RunsFrom(_, _)
RunsFrom(s, i) ==
    IF i > Len(s) THEN <<>>
    ELSE IF s[i] \in Digits
         THEN LET e == RunEnd(s, i, Digits)
              IN  <<SubSeq(s, i, e)>> \o RunsFrom(s, e + 1)
         ELSE RunsFrom(s, i + 1)

\* a u64 divided by ten: quotient and remainder
DivMod10(n) ==
    LET c4 == n[4]
        c3 == (c4 % 10) * LimbBase + n[3]
        c2 == (c3 % 10) * LimbBase + n[2]
        c1 == (c2 % 10) * LimbBase + n[1]
    IN  [q |-> <<c1 \div 10, c2 \div 10, c3 \div 10, c4 \div 10>>, r |-> c1 % 10]

RECURSIVE DecimalDigits(_)
DecimalDigits(n) ==
    IF n = Zero THEN <<>>
    ELSE Append(DecimalDigits(DivMod10(n).q), DigitOrder[DivMod10(n).r + 1])

\* a u64 written in decimal
Decimal(n) == IF n = Zero THEN <<"0">> ELSE DecimalDigits(n)

\* C5: a digit run is tokenized as the Number of its exact decimal value when
\* that is at most 2^64 - 1, and is the LexerError "Number too large" when it
\* is above; the value never wraps.  (Stated for texts of digits and blanks:
\* every run is then a token of its own.)
C5_NumberExactOrTooLarge ==
    (ret.scanned /\ \A i \in 1..Len(ret.in0) : ret.in0[i] \in Digits \cup Whitespace) =>
        LET runs == RunsFrom(ret.in0, 1)
            bad == {i \in 1..Len(runs) : ExceedsU64(runs[i])}
            good == IF bad = {} THEN Len(runs)
                    ELSE (CHOOSE i \in bad : \A j \in bad : i <= j) - 1
        IN  /\ \A i \in 1..good :
                 /\ i <= Len(ret.partial)
                 /\ ret.partial[i].t = "Number"
                 /\ Decimal(ret.partial[i].n) = Canonical(runs[i])
            /\ IF bad = {}
               THEN ret.ok /\ Len(ret.tokens) = good + 1
               ELSE ~ret.ok /\ ret.err = "Number too large" /\ Len(ret.partial) = good

\* a run of twenty digits just above 2^64 - 1: the last addition overflows
C5_Witness ==
    /\ ret.op = "tokenize" /\ ~ret.ok /\ ret.err = "Number too large"
    /\ Len(ret.in0) = 20 /\ ret.in0[1] = "1"
    /\ input = <<ret.in0[20]>>

LowerSeq == <<"a", "b", "c", "d", "e", "f", "g", "h", "i", "j", "k", "l", "m",
              "n", "o", "p", "q", "r", "s", "t", "u", "v", "w", "x", "y", "z">>
UpperSeq == <<"A", "B", "C", "D", "E", "F", "G", "H", "I", "J", "K", "L", "M",
              "N", "O", "P", "Q", "R", "S", "T", "U", "V", "W", "X", "Y", "Z">>

UpperCase(c) ==
    IF \E i \in 1..26 : LowerSeq[i] = c
    THEN UpperSeq[CHOOSE i \in 1..26 : LowerSeq[i] = c] ELSE c
LowerCase(c) ==
    IF \E i \in 1..26 : UpperSeq[i] = c
    THEN LowerSeq[CHOOSE i \in 1..26 : UpperSeq[i] = c] ELSE c

\* the quote that is open after the first i characters of s ("" outside a literal)
RECURSIVE QuoteAfter(_, _)
QuoteAfter(s, i) ==
    IF i = 0 THEN ""
    ELSE LET q == QuoteAfter(s, i - 1)
         IN  IF q = "" THEN (IF s[i] \in Quotes THEN s[i] ELSE "")
             ELSE IF s[i] = q THEN "" ELSE q

\* s with every letter outside string literals in upper case, or in lower case
UpperOutside(s) ==
    [i \in 1..Len(s) |-> IF QuoteAfter(s, i - 1) = "" THEN UpperCase(s[i]) ELSE s[i]]
LowerOutside(s) ==
    [i \in 1..Len(s) |-> IF QuoteAfter(s, i - 1) = "" THEN LowerCase(s[i]) ELSE s[i]]

\* the contents of the string literals of a text, in order
RECURSIVE LiteralsFrom(_, _)
LiteralsFrom(s, i) ==
    IF i > Len(s) THEN <<>>
    ELSE IF s[i] \in Quotes
         THEN LET closing == {j \in (i + 1)..Len(s) : s[j] = s[i]}
                  j == CHOOSE x \in closing : \A k \in closing : x <= k
              IN  IF closing = {} THEN <<>>
                  ELSE <<SubSeq(s, i + 1, j - 1)>> \o LiteralsFrom(s, j + 1)
         ELSE LiteralsFrom(s, i + 1)

\* the String tokens of a token sequence, in order
StringsOf(toks) ==
    LET at == {i \in 1..Len(toks) : toks[i].t = "String"}
        F[i \in 0..Len(toks)] ==
            IF i = 0 THEN <<>>
            ELSE IF i \in at THEN Append(F[i - 1], toks[i].s) ELSE F[i - 1]
    IN  F[Len(toks)]

\* the scan of a text from the flag the last scan started with
Rescan(str) ==
    tokenize([input |-> str, current_position |-> 0, is_after_select |-> ret.flag0])

\* C6: a scan gives the same result for texts that differ only in the case of
\* letters outside string literals: identifiers and keywords come out in upper
\* case, String contents as written; so the texts also parse alike.
C6_CaseInsensitiveOutsideStrings ==
    ret.scanned =>
        /\ \A v \in {UpperOutside(ret.in0), LowerOutside(ret.in0)} :
             /\ Rescan(v).ok = ret.ok
             /\ Rescan(v).tokens = ret.tokens
             /\ Rescan(v).err = ret.err
             /\ build_statement(v) = build_statement(ret.in0)
        /\ \A i \in 1..Len(ret.tokens) :
             ret.tokens[i].t = "Identifier" =>
                /\ \A k \in 1..Len(ret.tokens[i].s) : ret.tokens[i].s[k] \notin LowerLetters
                /\ ret.tokens[i].s \notin DOMAIN KeywordTable
        /\ ret.ok => StringsOf(ret.tokens) = LiteralsFrom(ret.in0, 1)

\* a statement with a mixed-case keyword and a string literal holding a lower-case letter
C6_Witness ==
    /\ ret.op = "tokenize" /\ ret.ok
    /\ ret.in0 # UpperOutside(ret.in0)
    /\ ret.in0 # LowerOutside(ret.in0)
    /\ \E i \in 1..Len(ret.tokens) : ret.tokens[i] = String(<<"a", "B">>)
    /\ \E i \in 1..Len(ret.tokens) : ret.tokens[i] = Keyword("Select")
    /\ build_statement(ret.in0).ok

\* the tokens a call of parse started from: the first and the second
Leading(k) == parser_tokens[parsed.cur0 + k]
HasLeading(k) == parsed.cur0 + k <= Len(parser_tokens)

\* C8: parse chooses the statement parser by the leading token alone (and, after
\* CREATE, the one after it): SELECT is a select; CREATE TABLE a create-table;
\* CREATE UNIQUE and CREATE INDEX a create-index; CREATE and another token is
\* UnexpectedToken "TABLE or INDEX"; another leading token is UnexpectedToken
\* "SELECT or CREATE"; no token at either place is UnexpectedEOF.
C8_DispatchOnLeadingToken ==
    parsed.calls > 0 =>
        LET r == parsed.res
            eof == ~r.ok /\ r.kind = "UnexpectedEOF"
            unexpected(what, tok) ==
                /\ ~r.ok /\ r.kind = "UnexpectedToken" /\ r.what = what
                /\ r.found = SomeToken(tok)
                /\ parsed.route = ""
            routed(to, stmt) ==
                /\ parsed.route = to
                /\ r.ok => r.val.stmt = stmt
        IN  IF ~HasLeading(1) THEN eof
            ELSE IF Leading(1) = Keyword("Select") THEN routed("parse_select", "Select")
            ELSE IF Leading(1) # Keyword("Create")
            THEN unexpected("SELECT or CREATE", Leading(1))
            ELSE IF ~HasLeading(2) THEN eof
            ELSE IF Leading(2) = Keyword("Table")
            THEN routed("parse_create_table", "CreateTable")
            ELSE IF Leading(2) \in {Keyword("Unique"), Keyword("Index")}
            THEN routed("parse_create_index", "CreateIndex")
            ELSE unexpected("TABLE or INDEX", Leading(2))

\* CREATE UNIQUE INDEX ... ; parsed by the create-index parser
C8_Witness ==
    /\ parsed.calls > 0
    /\ HasLeading(2) /\ Leading(1) = Keyword("Create") /\ Leading(2) = Keyword("Unique")
    /\ parsed.route = "parse_create_index"
    /\ parsed.res.ok /\ parsed.res.val.is_unique

\* the place after a projection list that starts at i: '*', or identifiers
\* separated by commas
RECURSIVE ListEnd(_, _)
ListEnd(toks, i) ==
    IF i + 2 <= Len(toks) /\ toks[i + 1] = Comma /\ toks[i + 2].t = "Identifier"
    THEN ListEnd(toks, i + 2)
    ELSE i + 1

\* a SELECT whose projection list is followed by a token that is neither FROM
\* nor a continuation of the list (a comma, an operator)
SelectWithoutFrom ==
    /\ HasLeading(3) /\ Leading(1) = Keyword("Select")
    /\ Leading(2) = Wildcard \/ Leading(2).t = "Identifier"
    /\ LET e == IF Leading(2) = Wildcard THEN parsed.cur0 + 3
                ELSE ListEnd(parser_tokens, parsed.cur0 + 2)
       IN  /\ e <= Len(parser_tokens)
           /\ parser_tokens[e] \notin
                 {Keyword("From"), Comma, Plus, Minus, Star, Divide, Equal, NotEqual,
                  GreaterThan, GreaterThanOrEqual, LessThan, LessThanOrEqual,
                  Keyword("And"), Keyword("Or")}

\* C9: a SELECT whose projection list is not followed by FROM fails with
\* MissingFromClause and with no other kind of error.
C9_MissingFromIsMissingFromClause ==
    (parsed.calls > 0 /\ SelectWithoutFrom) =>
        ~parsed.res.ok /\ parsed.res.kind = "MissingFromClause"

\* C10: parse returns a Statement only when the last token it consumed is the
\* Semicolon that ends the statement; an error carries no Statement.
C10_StatementEndsAtSemicolon ==
    parsed.calls > 0 =>
        IF parsed.res.ok
        THEN /\ "stmt" \in DOMAIN parsed.res.val
             /\ current > parsed.cur0
             /\ parser_tokens[current] = Semicolon
             /\ \A i \in (parsed.cur0 + 1)..(current - 1) : parser_tokens[i] # Semicolon
        ELSE parsed.res.val = NoVal

\* SELECT ... FROM T ; parsed, the cursor left on the token after the semicolon
C10_Witness ==
    /\ parsed.calls > 0 /\ parsed.res.ok
    /\ parsed.res.val.stmt = "Select"
    /\ parser_tokens[current] = Semicolon
    /\ current = Len(parser_tokens)

-----------------------------------------------------------------------------
(* Claims about CREATE TABLE. *)

\* token k of the statement a call of parse started from
At(k) == parser_tokens[parsed.cur0 + k]
Has(k) == k >= 1 /\ parsed.cur0 + k <= Len(parser_tokens)
IsName(k) == Has(k) /\ At(k).t = "Identifier"

\* token p is the FOREIGN of a table-level clause of CREATE TABLE name ( ...
TableLevelForeign(p) ==
    /\ Has(p) /\ At(p) = Keyword("Foreign")
    /\ At(1) = Keyword("Create") /\ At(2) = Keyword("Table")
    /\ IsName(3) /\ At(4) = LeftParentheses
    /\ p = 5 \/ (p > 5 /\ At(p - 1) = Comma)

\* does token p + k fit place k of KEY ( name ) REFERENCES name ( name )
FitsForeignKey(p, k) ==
    /\ Has(p + k)
    /\ CASE k = 1 -> At(p + k) = Keyword("Key")
         [] k \in {2, 7} -> At(p + k) = LeftParentheses
         [] k \in {3, 6, 8} -> At(p + k).t = "Identifier"
         [] k \in {4, 9} -> At(p + k) = RightParentheses
         [] k = 5 -> At(p + k) = Keyword("References")
         [] OTHER -> FALSE

\* the names of the columns declared before token p: the names that open an item
NamesBefore(p) ==
    {At(k).s : k \in {j \in 5..(p - 1) : IsName(j) /\ (j = 5 \/ At(j - 1) = Comma)}}

\* the call of parse did not fail before it had read k tokens of its statement
ReadUpTo(k) == parsed.res.ok \/ parsed.res.cur >= parsed.cur0 + k
FailedAt(k) == ~parsed.res.ok /\ parsed.res.cur = parsed.cur0 + k

\* C11: a table-level FOREIGN KEY (col) REFERENCES t(c) whose col is the name of
\* no column declared before it fails the parse with InvalidForeignKey and no
\* statement; when col is an earlier column the parse goes on and the
\* statement, if one is returned, holds the constraint in that column.
C11_ForeignKeyNeedsEarlierColumn ==
    parsed.calls > 0 =>
        \A p \in 1..Len(parser_tokens) :
            (/\ TableLevelForeign(p)
             /\ \A k \in 1..9 : FitsForeignKey(p, k)
             /\ ReadUpTo(p + 9)) =>
                IF At(p + 3).s \notin NamesBefore(p)
                THEN /\ FailedAt(p + 9)
                     /\ parsed.res.kind = "InvalidForeignKey"
                     /\ parsed.res.val = NoVal
                ELSE /\ ~(FailedAt(p + 9) /\ parsed.res.kind = "InvalidForeignKey")
                     /\ parsed.res.ok =>
                          \E i \in 1..Len(parsed.res.val.column_list) :
                              LET col == parsed.res.val.column_list[i]
                              IN  /\ col.column_name = At(p + 3).s
                                  /\ \E j \in 1..Len(col.constraints) :
                                       col.constraints[j] =
                                           ForeignKey(At(p + 3).s, At(p + 6).s, At(p + 8).s)

\* FOREIGN KEY (A) ahead of the column A it names: the column comes too late
C11_Witness ==
    /\ parsed.calls > 0
    /\ TableLevelForeign(5) /\ \A k \in 1..9 : FitsForeignKey(5, k)
    /\ At(8) = ident("A") /\ At(15) = Comma /\ At(16) = ident("A")
    /\ FailedAt(14) /\ parsed.res.kind = "InvalidForeignKey"

\* C12: once the FOREIGN of a table-level clause is read, the first token that
\* does not fit KEY ( name ) REFERENCES name ( name ) fails the parse with
\* InvalidForeignKey.
C12_MalformedForeignKeyIsInvalid ==
    parsed.calls > 0 =>
        \A p \in 1..Len(parser_tokens), k \in 0..8 :
            (/\ TableLevelForeign(p)
             /\ \A j \in 1..k : FitsForeignKey(p, j)
             /\ ~FitsForeignKey(p, k + 1)
             /\ ReadUpTo(p + k)) =>
                ~parsed.res.ok /\ parsed.res.kind = "InvalidForeignKey"

\* the places of the names that open an item of CREATE TABLE name ( ...
ItemStarts ==
    IF Has(4) /\ At(1) = Keyword("Create") /\ At(2) = Keyword("Table") /\ IsName(3)
              /\ At(4) = LeftParentheses
    THEN {j \in 5..(Len(parser_tokens) - parsed.cur0) :
              IsName(j) /\ (j = 5 \/ At(j - 1) = Comma)}
    ELSE {}

\* the place of the i-th of them
ItemStart(i) == CHOOSE j \in ItemStarts : Cardinality({k \in ItemStarts : k <= j}) = i

\* C13: a VARCHAR column type not followed by '(', or whose '(' is not followed
\* by a Number, fails the parse with InvalidVarcharLength; a Varchar type in a
\* statement carries the value of the Number written between the parentheses.
C13_VarcharNeedsLength ==
    parsed.calls > 0 =>
        /\ \A p \in ItemStarts :
             (Has(p + 1) /\ At(p + 1) = Keyword("Varchar") /\ ReadUpTo(p)) =>
                 IF ~(Has(p + 2) /\ At(p + 2) = LeftParentheses)
                 THEN FailedAt(p + 1) /\ parsed.res.kind = "InvalidVarcharLength"
                 ELSE IF ~(Has(p + 3) /\ At(p + 3).t = "Number")
                 THEN FailedAt(p + 2) /\ parsed.res.kind = "InvalidVarcharLength"
                 ELSE ~FailedAt(p + 1) /\ ~FailedAt(p + 2)
        /\ (parsed.res.ok /\ parsed.res.val.stmt = "CreateTable") =>
             \A i \in 1..Len(parsed.res.val.column_list) :
                 LET col == parsed.res.val.column_list[i]
                 IN  col.column_type.ty = "Varchar" =>
                        /\ i <= Cardinality(ItemStarts)
                        /\ At(ItemStart(i)).s = col.column_name
                        /\ At(ItemStart(i) + 1) = Keyword("Varchar")
                        /\ At(ItemStart(i) + 2) = LeftParentheses
                        /\ At(ItemStart(i) + 3) = Number(col.column_type.size)
                        /\ At(ItemStart(i) + 4) = RightParentheses

\* VARCHAR ( followed by a string where the length is due
C13_Witness ==
    /\ parsed.calls > 0
    /\ 5 \in ItemStarts /\ At(6) = Keyword("Varchar") /\ At(7) = LeftParentheses
    /\ At(8) = String(<<"7">>)
    /\ FailedAt(7) /\ parsed.res.kind = "InvalidVarcharLength"

-----------------------------------------------------------------------------
(* Claims about CREATE INDEX. *)

\* the tokens from place k on are INDEX name ON name ( name ) ;
IndexShape(k) ==
    /\ Has(k + 7)
    /\ At(k) = Keyword("Index") /\ At(k + 1).t = "Identifier"
    /\ At(k + 2) = Keyword("On") /\ At(k + 3).t = "Identifier"
    /\ At(k + 4) = LeftParentheses /\ At(k + 5).t = "Identifier"
    /\ At(k + 6) = RightParentheses /\ At(k + 7) = Semicolon

\* C14: after CREATE, the tokens [UNIQUE] INDEX name ON name ( name ) ; and no
\* others are a CreateIndex: is_unique tells whether UNIQUE was there, and
\* index_name, table_name, column_name are the three names in that order.
C14_CreateIndexShape ==
    (/\ parsed.calls > 0
     /\ Has(2) /\ At(1) = Keyword("Create")
     /\ At(2) \in {Keyword("Unique"), Keyword("Index")}) =>
        LET unique == At(2) = Keyword("Unique")
            k == IF unique THEN 3 ELSE 2
        IN  /\ parsed.res.ok <=> IndexShape(k)
            /\ parsed.res.ok =>
                 /\ parsed.res.val.stmt = "CreateIndex"
                 /\ parsed.res.val.is_unique = unique
                 /\ parsed.res.val.index_name = At(k + 1).s
                 /\ parsed.res.val.table_name = At(k + 3).s
                 /\ parsed.res.val.column_name = At(k + 5).s
                 /\ current = parsed.cur0 + k + 7

\* CREATE INDEX I ON T ( A ) ; without UNIQUE
C14_Witness ==
    /\ parsed.calls > 0 /\ parsed.res.ok
    /\ Has(2) /\ At(1) = Keyword("Create") /\ At(2) = Keyword("Index")
    /\ parsed.res.val.stmt = "CreateIndex" /\ ~parsed.res.val.is_unique
    /\ parsed.res.val.column_name = <<"A">>

-----------------------------------------------------------------------------
(* Claims about expressions.  The tree the specification gives a sequence  *)
(* of tokens, computed from its precedence table by splitting at operators. *)

\* the precedence table of the specification
PrecedenceOf(tok) ==
    CASE tok = Keyword("Or") -> 1
      [] tok = Keyword("And") -> 2
      [] tok \in {Equal, NotEqual} -> 3
      [] tok \in {LessThan, LessThanOrEqual, GreaterThan, GreaterThanOrEqual} -> 4
      [] tok \in {Plus, Minus} -> 5
      [] tok \in {Star, Divide} -> 6
      [] OTHER -> 0

OperatorName(tok) ==
    CASE tok = Star -> "Multiply"
      [] tok.t = "Keyword" -> tok.k
      [] OTHER -> tok.t

PrefixTokens == {Minus, Plus, Keyword("Not")}

\* the number of parentheses open before token i
DepthAt(seq, i) ==
    Cardinality({j \in 1..(i - 1) : seq[j] = LeftParentheses})
        - Cardinality({j \in 1..(i - 1) : seq[j] = RightParentheses})

\* token i stands where an operand is due: it is a prefix operator
IsPrefixAt(seq, i) ==
    /\ seq[i] \in PrefixTokens
    /\ i = 1 \/ PrecedenceOf(seq[i - 1]) > 0 \/ seq[i - 1] \in {Keyword("Not"), LeftParentheses}

Malformed == [e |-> "Malformed"]

RECURSIVE TreeOf(_)
TreeOf(seq) ==
    IF seq = <<>> THEN Malformed
    ELSE IF seq[1] \in PrefixTokens
    THEN [e |-> "UnaryOperation", operand |-> TreeOf(Tail(seq)),
          operator |-> OperatorName(seq[1])]
    ELSE
    LET outer == {i \in 2..Len(seq) : DepthAt(seq, i) = 0}
        prefixes == {i \in outer : IsPrefixAt(seq, i)}
        binary == {i \in outer : /\ PrecedenceOf(seq[i]) > 0
                                 /\ \A u \in prefixes : i < u}
    IN  IF binary # {}
        THEN LET lowest == CHOOSE i \in binary :
                     \A j \in binary :
                         \/ PrecedenceOf(seq[i]) < PrecedenceOf(seq[j])
                         \/ (PrecedenceOf(seq[i]) = PrecedenceOf(seq[j]) /\ j <= i)
             IN  [e |-> "BinaryOperation",
                  left_operand |-> TreeOf(SubSeq(seq, 1, lowest - 1)),
                  operator |-> OperatorName(seq[lowest]),
                  right_operand |-> TreeOf(SubSeq(seq, lowest + 1, Len(seq)))]
        ELSE IF Len(seq) >= 3 /\ seq[1] = LeftParentheses /\ seq[Len(seq)] = RightParentheses
        THEN TreeOf(SubSeq(seq, 2, Len(seq) - 1))
        ELSE IF Len(seq) = 1 /\ seq[1].t = "Number" THEN [e |-> "Number", v |-> seq[1].n]
        ELSE IF Len(seq) = 1 /\ seq[1].t = "Identifier"
        THEN [e |-> "Identifier", v |-> seq[1].s]
        ELSE Malformed

\* the tokens between the SELECT a call of parse started from and the first FROM
Projection ==
    LET froms == {k \in 2..(Len(parser_tokens) - parsed.cur0) : At(k) = Keyword("From")}
        from == CHOOSE k \in froms : \A j \in froms : k <= j
    IN  IF froms = {} THEN <<>>
        ELSE SubSeq(parser_tokens, parsed.cur0 + 2, parsed.cur0 + from - 1)

HasPrefix(seq) == \E i \in 1..Len(seq) : IsPrefixAt(seq, i)

SelectParsed ==
    /\ parsed.calls > 0 /\ parsed.res.ok
    /\ parsed.res.val.stmt = "Select"
    /\ Len(parsed.res.val.columns) = 1

\* C15: an expression of primaries, parentheses and binary operators is parsed
\* to the tree of the precedence table OR=1, AND=2, = != 3, < <= > >= 4, + - 5,
\* * / 6: a higher operator binds tighter, equal ones group left to right.
C15_BinaryPrecedence ==
    (SelectParsed /\ ~HasPrefix(Projection)) =>
        parsed.res.val.columns[1] = TreeOf(Projection)

\* A + 1 * B: the product is the right operand of the sum
C15_Witness ==
    /\ SelectParsed
    /\ Projection = <<ident("A"), Plus, Number(U64(1)), Star, ident("B")>>
    /\ parsed.res.val.columns[1].operator = "Plus"
    /\ parsed.res.val.columns[1].right_operand.operator = "Multiply"

\* C16: a prefix -, + or NOT takes the whole expression that follows it as its
\* operand, binary operators included, also where the prefix operator is the
\* right operand of a binary operator.
C16_PrefixTakesWholeExpression ==
    (SelectParsed /\ HasPrefix(Projection)) =>
        parsed.res.val.columns[1] = TreeOf(Projection)

\* 2 * - 1 + 3: the operand of * is -(1 + 3)
C16_Witness ==
    /\ SelectParsed
    /\ Projection = <<Number(U64(2)), Star, Minus, Number(U64(1)), Plus, Number(U64(3))>>
    /\ parsed.res.val.columns[1].operator = "Multiply"
    /\ parsed.res.val.columns[1].right_operand.e = "UnaryOperation"
    /\ parsed.res.val.columns[1].right_operand.operand.operator = "Plus"

\* the statements above that parse accepts
AcceptedStatements ==
    {s \in TableStatements \cup ColumnStatements \cup IndexStatements
            \cup OrderByStatements \cup {select_from(e) : e \in LongerExpressions} :
        parse(s, 0).ok}

\* what tokenize returns for a text that stops inside a statement: the tokens
\* read so far and the Eof token
CutStatements ==
    UNION {{SubSeq(s, 1, n) \o <<Eof>> : n \in 1..(Len(s) - 1)} : s \in AcceptedStatements}

InitCut ==
    /\ NewTokenizer(<<>>)
    /\ \E toks \in CutStatements : NewParser(toks)

SpecCut == InitCut /\ [][NextParse]_vars

(* The loops, one iteration at a time. *)

\* the loop may run one more iteration: more iterations than the input has
\* characters and tokens are not followed
MayIterate ==
    /\ running.state \in {"entered", "iterating"}
    /\ running.iterations <= Len(text) + Len(parser_tokens) + 1

\* a loop that was entered and has not been left
Entered(loop, locals, min_precedence, from) ==
    [loop |-> loop, state |-> "entered", locals |-> locals,
     min_precedence |-> min_precedence, from |-> from, iterations |-> 0]

\* the loop after an iteration that started at from
After(step, from) ==
    [running EXCEPT !.state = IF ~step.ok THEN "failed"
                              ELSE IF step.again THEN "iterating" ELSE "left",
                    !.locals = IF step.ok THEN step.val ELSE @,
                    !.from = from,
                    !.iterations = @ + 1]

\* the while loop of Tokenizer::tokenize: its test, and one iteration if the
\* test finds a character; without one the loop is left and Eof is pushed
ScanIteration ==
    /\ running.loop = "tokenize"
    /\ MayIterate
    /\ IF input = <<>>
       THEN /\ running' = [running EXCEPT !.state = "left", !.locals = Append(@, Eof),
                                          !.iterations = @ + 1]
            /\ UNCHANGED <<input, current_position, is_after_select>>
       ELSE LET step == tokenize_iteration(Self, running.locals)
            IN  /\ input' = step.self.input
                /\ current_position' = step.self.current_position
                /\ is_after_select' = step.self.is_after_select
                /\ running' = [running EXCEPT
                                  !.state = IF step.again THEN "iterating" ELSE "failed",
                                  !.locals = step.toks,
                                  !.from = Len(input),
                                  !.iterations = @ + 1]
    /\ UNCHANGED <<text, tokens, current_token, ret, pulled, eager, scans,
                   parser_tokens, current, parsed>>

\* one iteration of a loop of the Parser
Iterate(loop, step) ==
    /\ running.loop = loop
    /\ MayIterate
    /\ current' = step.cur
    /\ running' = After(step, current)
    /\ UNCHANGED <<parser_tokens, parsed, lexvars>>

ExpressionsIteration ==
    Iterate("expressions", expressions_iteration(parser_tokens, current, running.locals))

OrderByIteration ==
    Iterate("orderby", orderby_iteration(parser_tokens, current, running.locals))

TableIteration ==
    Iterate("table", table_iteration(parser_tokens, current, running.locals))

ConstraintsIteration ==
    Iterate("constraints", constraints_iteration(parser_tokens, current, running.locals))

BinaryIteration ==
    Iterate("binary", binary_iteration(parser_tokens, current, running.locals,
                                       running.min_precedence))

\* the values parse_binary_expression is called with: 0 and precedence + 1
MinPrecedences == {0} \cup {get_binary_precedence(tok) + 1 : tok \in BinaryOperatorTokens}

\* the cursor and the locals each loop of the Parser is entered with, when the
\* function around it is called at s
Entries(toks) ==
    LET at == 0..Len(toks)
        opened(s) ==
            Then(expect_keyword(toks, s, "Table"), LAMBDA table :
            Then(expect_name(toks, table.cur,
                             "ParserError", "Expected table name", "UnexpectedEOF", ""),
                 LAMBDA table_name :
                expect_token(toks, table_name.cur, LeftParentheses)))
        typed(s) ==
            Then(expect_name(toks, s,
                             "ParserError", "Expected column name", "UnexpectedEOF", ""),
                 LAMBDA column_name : column_type(toks, column_name.cur))
    IN  {[cur |-> s, running |-> Entered("expressions", <<>>, 0, s)] :
            s \in {s \in at \ {0} : toks[s] = Keyword("Select")
                                     /\ ~peek_is(toks, s, Wildcard)}}
        \cup
        {[cur |-> opened(s).cur, running |-> Entered("table", <<>>, 0, opened(s).cur)] :
            s \in {s \in at \ {0} : toks[s] = Keyword("Create") /\ opened(s).ok}}
        \cup
        {[cur |-> s + 2, running |-> Entered("orderby", <<>>, 0, s + 2)] :
            s \in {s \in at : /\ peek_is(toks, s, Keyword("Order"))
                              /\ expect_keyword(toks, advance(s), "By").ok}}
        \cup
        {[cur |-> typed(s).cur,
          running |-> Entered("constraints", <<>>, 0, typed(s).cur)] :
            s \in {s \in at : typed(s).ok}}
        \cup
        {[cur |-> parse_prefix_expression(toks, s).cur,
          running |-> Entered("binary", parse_prefix_expression(toks, s).val, m,
                              parse_prefix_expression(toks, s).cur)] :
            s \in {s \in at : parse_prefix_expression(toks, s).ok},
            m \in MinPrecedences}

InitLoops ==
    \/ /\ \E str \in Concats(LexFragments, MaxScanPieces) : NewTokenizer(str)
       /\ parser_tokens = <<>>
       /\ current = 0
       /\ parsed = [calls |-> 0, cur0 |-> 0, route |-> "", res |-> PErr("", "", NoToken, 0)]
       /\ running = Entered("tokenize", <<>>, 0, Len(text))
    \/ /\ NewTokenizer(<<>>)
       /\ \E toks \in AcceptedStatements \cup CutStatements :
            \E entry \in Entries(toks) :
                /\ parser_tokens = toks
                /\ current = entry.cur
                /\ running = entry.running
       /\ parsed = [calls |-> 0, cur0 |-> 0, route |-> "", res |-> PErr("", "", NoToken, 0)]

NextLoops ==
    \/ ScanIteration
    \/ ExpressionsIteration
    \/ OrderByIteration
    \/ TableIteration
    \/ ConstraintsIteration
    \/ BinaryIteration

SpecLoops == InitLoops /\ [][NextLoops]_vars

\* CREATE TABLE statements whose FOREIGN KEY names a column declared twice, or
\* a column that already has constraints
ForeignStatements ==
    TableStatements \cup
    {create_table(column("A") \o <<Keyword("Not"), Keyword("Null"), Comma>>
                  \o column("A") \o <<Comma>> \o foreign_key("A")),
     create_table(column("B") \o <<Comma>> \o column("A")
                  \o <<Keyword("Primary"), Keyword("Key"), Comma>> \o foreign_key("A")
                  \o <<Comma>> \o foreign_key("A"))}

\* the item loop of parse_create_table, entered after CREATE TABLE name (
InitForeign ==
    /\ NewTokenizer(<<>>)
    /\ \E toks \in Edited(ForeignStatements, TableTokens, MaxEdits) :
         \E entry \in {e \in Entries(toks) : e.running.loop = "table"} :
             /\ parser_tokens = toks
             /\ current = entry.cur
             /\ running = entry.running
    /\ parsed = [calls |-> 0, cur0 |-> 0, route |-> "", res |-> PErr("", "", NoToken, 0)]

NextForeign == TableIteration

SpecForeign == InitForeign /\ [][NextForeign]_vars

\* what tokenize returns for the text of a statement, whole or with one token
\* removed or replaced: its tokens and the Eof token, the only Eof of the vector
TerminatedStatements ==
    LET whole == TableStatements \cup ColumnStatements \cup IndexStatements
                     \cup OrderByStatements
    IN  {s \o <<Eof>> :
            s \in whole \cup UNION {Edits(w, TableTokens \cup OrderByTokens) : w \in whole}}

InitTerminated ==
    /\ NewTokenizer(<<>>)
    /\ \E toks \in TerminatedStatements \cup CutStatements : NewParser(toks)

SpecTerminated == InitTerminated /\ [][NextParse]_vars

\* the constraint clauses of a column, and clauses cut short
ClauseFragments ==
    {<<Keyword("Primary"), Keyword("Key")>>,
     <<Keyword("Not"), Keyword("Null")>>,
     <<Keyword("Check"), LeftParentheses, ident("A"), GreaterThan, Number(U64(1)),
       RightParentheses>>,
     <<Keyword("Foreign"), Keyword("Key"), LeftParentheses, ident("X"), RightParentheses,
       Keyword("References"), ident("U"), LeftParentheses, ident("B"), RightParentheses>>,
     <<Keyword("Primary")>>,
     <<Keyword("Not")>>,
     <<Keyword("Check"), ident("A")>>,
     <<Keyword("Foreign"), Keyword("Key"), LeftParentheses, ident("X")>>}

\* CREATE TABLE T (A INT clauses) ; and CREATE TABLE T (A INT clauses, B INT) ;
ConstraintStatements ==
    {create_table(column("A") \o clauses \o rest) :
        clauses \in Concats(ClauseFragments, MaxClauses),
        rest \in {<<>>, <<Comma>> \o column("B")}}

\* the constraint loop of parse_column_definition, entered after a column's type
InitConstraints ==
    /\ NewTokenizer(<<>>)
    /\ \E toks \in ConstraintStatements :
         \E entry \in {e \in Entries(toks) : e.running.loop = "constraints"} :
             /\ parser_tokens = toks
             /\ current = entry.cur
             /\ running = entry.running
    /\ parsed = [calls |-> 0, cur0 |-> 0, route |-> "", res |-> PErr("", "", NoToken, 0)]

NextConstraints == ConstraintsIteration

SpecConstraints == InitConstraints /\ [][NextConstraints]_vars

\* what may stand after the semicolon of a statement: the Eof token, loose
\* tokens, another statement
FollowingFragments ==
    {<<Eof>>, <<Semicolon>>, <<RightParentheses>>, <<ident("A")>>, <<Keyword("Select")>>,
     <<Keyword("Create")>>, <<Number(U64(1))>>,
     <<Keyword("Select"), ident("B"), Keyword("From"), ident("U"), Semicolon>>}

\* an accepted statement and what follows it
FollowedStatements ==
    {s \o following : s \in AcceptedStatements,
                      following \in Concats(FollowingFragments, MaxFollowing)}

InitFollowed ==
    /\ NewTokenizer(<<>>)
    /\ \E toks \in FollowedStatements : NewParser(toks)

SpecFollowed == InitFollowed /\ [][NextParse]_vars

-----------------------------------------------------------------------------
(* Claims about ORDER BY. *)

\* seq cut at every token sep
RECURSIVE Split(_, _)
Split(seq, sep) ==
    LET at == {i \in 1..Len(seq) : seq[i] = sep}
        i == CHOOSE j \in at : \A k \in at : j <= k
    IN  IF at = {} THEN <<seq>>
        ELSE <<SubSeq(seq, 1, i - 1)>> \o Split(SubSeq(seq, i + 1, Len(seq)), sep)

\* what the specification stores for one term of ORDER BY
TermOf(seq) ==
    IF seq # <<>> /\ seq[Len(seq)] \in {Keyword("Asc"), Keyword("Desc")}
    THEN [e |-> "UnaryOperation", operand |-> TreeOf(SubSeq(seq, 1, Len(seq) - 1)),
          operator |-> seq[Len(seq)].k]
    ELSE TreeOf(seq)

\* the tokens of the statement a successful call of parse consumed
Consumed == SubSeq(parser_tokens, parsed.cur0 + 1, current)

\* the places of a keyword in them
PlacesOf(k) == {i \in 1..Len(Consumed) : Consumed[i] = Keyword(k)}

\* C17: the terms of ORDER BY are stored in source order, a term followed by
\* ASC or DESC as UnaryOperation{term, Asc or Desc}, another term as it is;
\* orderby is empty exactly when there is no ORDER BY; WHERE comes before
\* ORDER BY.
C17_OrderByTerms ==
    (parsed.calls > 0 /\ parsed.res.ok /\ parsed.res.val.stmt = "Select") =>
        LET orderby == parsed.res.val.orderby
            orders == PlacesOf("Order")
            o == CHOOSE i \in orders : \A j \in orders : i <= j
            terms == Split(SubSeq(Consumed, o + 2, Len(Consumed) - 1), Comma)
        IN  /\ orderby = <<>> <=> orders = {}
            /\ orders # {} =>
                 /\ Consumed[o + 1] = Keyword("By")
                 /\ Len(orderby) = Len(terms)
                 /\ \A i \in 1..Len(terms) : orderby[i] = TermOf(terms[i])
                 /\ \A w \in PlacesOf("Where") : w < o
            /\ parsed.res.val.where.some <=> PlacesOf("Where") # {}

\* ORDER BY A ASC, B, A: a wrapped term, then two bare ones
C17_Witness ==
    /\ parsed.calls > 0 /\ parsed.res.ok /\ parsed.res.val.stmt = "Select"
    /\ Len(parsed.res.val.orderby) = 3
    /\ parsed.res.val.orderby[1] =
          [e |-> "UnaryOperation", operand |-> [e |-> "Identifier", v |-> <<"A">>],
           operator |-> "Asc"]
    /\ parsed.res.val.orderby[2] = [e |-> "Identifier", v |-> <<"B">>]

-----------------------------------------------------------------------------
(* Claims about the end of the tokens. *)

\* the tokens are a statement cut short, then the Eof token
CutShort ==
    \E s \in AcceptedStatements : \E n \in 1..(Len(s) - 1) :
        parser_tokens = SubSeq(s, 1, n) \o <<Eof>>

\* C18: parse of the tokens of a statement cut short (a proper prefix of an
\* accepted statement, then the Eof token tokenize appends) fails with
\* UnexpectedEOF.
C18_CutStatementIsUnexpectedEOF ==
    (parsed.calls = 1 /\ CutShort) =>
        ~parsed.res.ok /\ parsed.res.kind = "UnexpectedEOF"

\* what the code does instead: the Eof token is a token like any other, so
\* the error is the one of the place where it was met
C18_CutStatementFails ==
    (parsed.calls = 1 /\ CutShort) =>
        /\ ~parsed.res.ok
        /\ parsed.res.kind \in {"ParserError", "UnexpectedToken", "InvalidVarcharLength",
                                "InvalidForeignKey"}
        /\ parsed.res.cur <= Len(parser_tokens)

-----------------------------------------------------------------------------
(* Claims about the state a scan starts from. *)

\* the scan the last call would have run had it started with the flag cleared
ScanWithFlagCleared ==
    tokenize([input |-> ret.in0, current_position |-> ret.pos0,
              is_after_select |-> FALSE])

\* C19: every scan (a call of tokenize, or the scan a pull runs) starts with
\* is_after_select cleared, so what it returns depends only on the characters
\* it scans.
C19_FlagClearedAtEveryScan ==
    ret.scanned =>
        /\ ret.flag0 = FALSE
        /\ ret.ok = ScanWithFlagCleared.ok
        /\ ret.tokens = ScanWithFlagCleared.tokens

\* what the code does instead: the first scan of a Tokenizer starts with the
\* flag cleared, a later one with the flag the scan before it left
C19_FlagClearedAtFirstScan ==
    (ret.scanned /\ scans = 1) => ret.flag0 = FALSE

-----------------------------------------------------------------------------
(* Claims about termination. *)

\* the last iteration went on to another one only after it consumed something
Advanced ==
    running.state = "iterating" =>
        IF running.loop = "tokenize"
        THEN Len(input) < running.from
        ELSE running.from < current /\ current <= Len(parser_tokens)

\* the loop has run no more iterations than there is input, and one for its exit
Bounded ==
    running.iterations <=
        (IF running.loop = "tokenize" THEN Len(text) ELSE Len(parser_tokens)) + 1

\* C20: every iteration of the scan loop consumes a character or returns, every
\* iteration of the projection, ORDER BY, table item, constraint and
\* precedence-climbing loop advances the cursor or returns, so a loop is left
\* after no more iterations than the input has characters or tokens, and one.
C20_LoopsAdvanceAndReturn == Advanced /\ Bounded

\* CREATE TABLE T (A INT, B VARCHAR(n) NOT NULL): the item loop left after
\* two columns and the iteration that met the right parenthesis
C20_Witness ==
    /\ running.loop = "table"
    /\ running.state = "left"
    /\ Len(running.locals) = 2
    /\ running.iterations = 3
    /\ running.from < current

-----------------------------------------------------------------------------
(* Claims about the effect of a table-level FOREIGN KEY. *)

\* where the item of the coming iteration of the item loop starts: after the
\* comma, if columns were read before
ItemAt == current + (IF running.locals = <<>> THEN 0 ELSE 1)

\* the coming iteration reads a table-level FOREIGN KEY clause
AtForeignKey ==
    /\ running.loop = "table"
    /\ ItemAt < Len(parser_tokens)
    /\ parser_tokens[ItemAt + 1] = Keyword("Foreign")

\* FOREIGN KEY (col) REFERENCES t(c) as written at ItemAt
WrittenForeignKey ==
    [c |-> "ForeignKey", column |-> parser_tokens[ItemAt + 4].s,
     referenced_table |-> parser_tokens[ItemAt + 7].s,
     referenced_column |-> parser_tokens[ItemAt + 9].s]

\* what an iteration that read a FOREIGN KEY clause did to column_list
ForeignKeyDecorates ==
    (AtForeignKey /\ running'.state = "iterating") =>
        LET before == running.locals
            after == running'.locals
            named == {i \in 1..Len(before) : before[i].column_name = WrittenForeignKey.column}
            target == CHOOSE i \in named : \A j \in named : i <= j
        IN  /\ named # {}
            /\ Len(after) = Len(before)
            /\ \A i \in 1..Len(before) : i # target => after[i] = before[i]
            /\ after[target].column_name = before[target].column_name
            /\ after[target].column_type = before[target].column_type
            /\ after[target].constraints = Append(before[target].constraints, WrittenForeignKey)

\* C21: a successful table-level FOREIGN KEY (col) REFERENCES t(c) appends one
\* ForeignKey{col, t, c} to the constraints of the first column named col and
\* changes nothing else of column_list.
C21_ForeignKeyDecoratesFirstColumn == [][ForeignKeyDecorates]_vars

\* (A INT NOT NULL, A INT, FOREIGN KEY (A) ...): the first A has NOT NULL and
\* the ForeignKey, the second A has nothing
C21_Witness ==
    /\ running.loop = "table"
    /\ running.state = "iterating"
    /\ Len(running.locals) = 2
    /\ running.locals[1].column_name = running.locals[2].column_name
    /\ Len(running.locals[1].constraints) = 2
    /\ running.locals[1].constraints[1] = NotNull
    /\ running.locals[1].constraints[2].c = "ForeignKey"
    /\ running.locals[2].constraints = <<>>

-----------------------------------------------------------------------------
(* Claims about the precedence-climbing loop. *)

\* the token the last iteration of the followed loop looked at
Looked == peek(parser_tokens, running.from)

\* that token is a binary operator the loop may take
TakesOperator ==
    /\ Looked.some
    /\ Looked.tok \in BinaryOperatorTokens
    /\ ~is_terminator(Looked.tok)
    /\ get_binary_precedence(Looked.tok) >= running.min_precedence

\* C22: the precedence-climbing loop consumes a token only if it is a binary
\* operator of at least the minimum precedence; on any other token it stops
\* with the expression built so far and the cursor on that token, without an
\* error.
C22_LoopStopsAtOtherTokens ==
    (running.loop = "binary" /\ running.iterations > 0) =>
        (~TakesOperator => running.state = "left" /\ current = running.from)

\* what the code does: it stops so on a terminator, at the end of the tokens
\* and on a token of lower precedence than the minimum; any other token, met
\* with minimum 0, is an error of parse_binary_operator
C22_LoopStopsOrFails ==
    (running.loop = "binary" /\ running.iterations > 0) =>
        IF TakesOperator
        THEN running.state # "left" /\ current > running.from
        ELSE IF \/ ~Looked.some
                \/ is_terminator(Looked.tok)
                \/ get_binary_precedence(Looked.tok) < running.min_precedence
        THEN running.state = "left" /\ current = running.from
        ELSE /\ running.min_precedence = 0
             /\ running.state = "failed"
             /\ current = running.from

\* SELECT A <Eof>: the loop entered after the projection A with minimum 0
\* fails on Eof
C22_FailureOnEof ==
    /\ running.loop = "binary" /\ running.iterations = 1
    /\ running.min_precedence = 0
    /\ parser_tokens = <<Keyword("Select"), ident("A"), Eof>>
    /\ running.from = 2
    /\ running.state = "failed"

-----------------------------------------------------------------------------
(* Claims about the cursor. *)

\* what a step does to the Parser: tokens stays as it is, current does not go
\* back and stays before the Eof token that ends tokens
CursorMovesForward ==
    /\ parser_tokens' = parser_tokens
    /\ current <= current'
    /\ current' < Len(parser_tokens')
    /\ parser_tokens'[current' + 1] = Eof => current' + 1 = Len(parser_tokens')

\* C23: during parse the cursor never goes back, the token buffer is never
\* modified, and on tokens that end in Eof the cursor never passes the Eof
\* token, so it stays within the buffer.
C23_CursorForwardWithinBuffer == [][CursorMovesForward]_vars

\* a statement was parsed to its semicolon, the cursor is on the Eof token
C23_Witness ==
    /\ parsed.calls = 1 /\ parsed.res.ok
    /\ current > parsed.cur0
    /\ current + 1 = Len(parser_tokens)
    /\ parser_tokens[current + 1] = Eof

-----------------------------------------------------------------------------
(* Claims about the constraints of a column. *)

\* the tokens from the cursor on
Ahead == SubSeq(parser_tokens, current + 1, Len(parser_tokens))

\* seq starts with the tokens of start
StartsWith(seq, start) ==
    Len(seq) >= Len(start) /\ SubSeq(seq, 1, Len(start)) = start

\* the closing parenthesis of CHECK ( ... in seq, or 0
CheckEnd(seq) ==
    LET closing == {i \in 3..Len(seq) : seq[i] = RightParentheses /\ DepthAt(seq, i) = 1}
    IN  IF closing = {} THEN 0 ELSE CHOOSE i \in closing : \A j \in closing : i <= j

\* the constraint clause written at the start of seq: how many tokens it has
\* and the entry it stands for; len 0 if none is written there in full
ClauseAhead(seq) ==
    IF StartsWith(seq, <<Keyword("Primary"), Keyword("Key")>>)
    THEN [len |-> 2, entry |-> [c |-> "PrimaryKey"]]
    ELSE IF StartsWith(seq, <<Keyword("Not"), Keyword("Null")>>)
    THEN [len |-> 2, entry |-> [c |-> "NotNull"]]
    ELSE IF /\ StartsWith(seq, <<Keyword("Foreign"), Keyword("Key"), LeftParentheses>>)
            /\ Len(seq) >= 10
            /\ seq[4].t = "Identifier" /\ seq[5] = RightParentheses
            /\ seq[6] = Keyword("References") /\ seq[7].t = "Identifier"
            /\ seq[8] = LeftParentheses /\ seq[9].t = "Identifier"
            /\ seq[10] = RightParentheses
    THEN [len |-> 10,
          entry |-> [c |-> "ForeignKey", column |-> seq[4].s,
                     referenced_table |-> seq[7].s, referenced_column |-> seq[9].s]]
    ELSE IF /\ StartsWith(seq, <<Keyword("Check"), LeftParentheses>>)
            /\ CheckEnd(seq) > 3
            /\ TreeOf(SubSeq(seq, 3, CheckEnd(seq) - 1)) # Malformed
    THEN [len |-> CheckEnd(seq),
          entry |-> [c |-> "Check", expr |-> TreeOf(SubSeq(seq, 3, CheckEnd(seq) - 1))]]
    ELSE [len |-> 0, entry |-> <<>>]

\* the token at the cursor starts a constraint clause
ConstraintAhead ==
    /\ Ahead # <<>>
    /\ Ahead[1] \in {Keyword("Primary"), Keyword("Not"), Keyword("Check"),
                     Keyword("Foreign")}

\* what an iteration of the constraint loop does
ConstraintStep ==
    running.loop = "constraints" =>
        /\ ~ConstraintAhead =>
              /\ running'.state = "left"
              /\ running'.locals = running.locals
              /\ current' = current
        /\ ClauseAhead(Ahead).len > 0 =>
              /\ running'.state = "iterating"
              /\ running'.locals = Append(running.locals, ClauseAhead(Ahead).entry)
              /\ current' = current + ClauseAhead(Ahead).len
        /\ (ConstraintAhead /\ ClauseAhead(Ahead).len = 0) => running'.state = "failed"

\* C24: the constraint list gets one entry per clause written after the type,
\* in source order, duplicates kept; the loop ends at the first token that
\* starts no constraint and leaves it; a column-level FOREIGN KEY is taken
\* whatever column it names.
C24_ConstraintsInSourceOrder == [][ConstraintStep]_vars

\* A INT PRIMARY KEY PRIMARY KEY FOREIGN KEY (X) REFERENCES U(B), with no
\* column X: three entries, the loop left at the token after them
C24_Witness ==
    /\ running.loop = "constraints"
    /\ running.state = "left"
    /\ running.locals =
          <<PrimaryKey, PrimaryKey,
            [c |-> "ForeignKey", column |-> <<"X">>, referenced_table |-> <<"U">>,
             referenced_column |-> <<"B">>]>>
    /\ parser_tokens[current + 1] \in {Comma, RightParentheses}

-----------------------------------------------------------------------------
(* Claims about the tokens after a statement. *)

\* the tokens up to and including the first semicolon
FirstStatement ==
    LET semicolons == {i \in 1..Len(parser_tokens) : parser_tokens[i] = Semicolon}
    IN  IF semicolons = {} THEN parser_tokens
        ELSE SubSeq(parser_tokens, 1,
                    CHOOSE i \in semicolons : \A j \in semicolons : i <= j)

\* C25: parse returns at the semicolon that ends the statement and reads no
\* token after it: the result is the one for the tokens up to that semicolon
\* alone, whatever follows.
C25_TokensAfterSemicolonIgnored ==
    (parsed.calls = 1 /\ parse(FirstStatement, 0).ok) =>
        /\ parsed.res = parse(FirstStatement, 0)
        /\ current = Len(FirstStatement)

\* a statement was accepted although a right parenthesis follows its semicolon
C25_Witness ==
    /\ parsed.calls = 1 /\ parsed.res.ok
    /\ current < Len(parser_tokens)
    /\ parser_tokens[current] = Semicolon
    /\ parser_tokens[current + 1] = RightParentheses

====
